---- MODULE Spec2Model ----
(***************************************************************************)
(* A model of the golang-blockchain node: the transaction model, signing   *)
(* and verification, Proof-of-Work, the chain store (Badger keys           *)
(* hash -> block and "lh"), the UTXO index ("utxo-"+txid keys), the CLI    *)
(* commands createblockchain / send -mine / reindexutxo and the block and  *)
(* transaction handlers of the peer network.                               *)
(*                                                                         *)
(* Byte strings are modelled structurally.  SHA-256 is a collision-free    *)
(* tagging of its preimage (Sha256(x) = [sha |-> x]); the 256-bit integer  *)
(* reading of a Proof-of-Work hash is a deterministic function of the      *)
(* preimage (HashInt).  An ECDSA signature is the pair of the signing key  *)
(* and the signed digest.  Output indices are 0-based as in the Go code.   *)
(***************************************************************************)
EXTENDS Integers, Sequences, FiniteSets, TLC

VARIABLES
    blocks,           \* chain store: block hash -> block (Badger keys other than "lh", "utxo-*")
    lh,               \* chain store: value of key "lh" (Empty before a chain exists)
    LastHash,         \* BlockChain.LastHash, the in-memory tip of the open chain
    utxo,             \* UTXO index: txid -> TxOutputs.Outputs (keys "utxo-"+txid)
    memoryPool,       \* network: memoryPool, txid -> Transaction
    blocksInTransit,  \* network: blocksInTransit, hashes still to download
    getdataSent,      \* network: getdata{block} requests sent and not yet answered
    peerBlocks,       \* blocks held by the other nodes of the network
    last,             \* the last command or handler run and how it ended
    running,          \* the nodes whose server process runs (StartServer's accept loop)
    tasks,            \* the connection handlers (goroutines) of the node that are under way
    msgs,             \* version, getblocks and inv messages sent and not yet handled
    KnownNodes,       \* network: KnownNodes of each node
    peerTip,          \* the tip ("lh") of the bootstrap node's chain
    advertised,       \* the block hashes the inv messages handled so far carried
    requested         \* the block hashes getdata was sent for so far

vars == <<blocks, lh, LastHash, utxo, memoryPool, blocksInTransit, getdataSent, peerBlocks, last,
          running, tasks, msgs, KnownNodes, peerTip, advertised, requested>>

-----------------------------------------------------------------------------
(* Bounds of the model *)

MaxBlocks == 4        \* blocks a node's store may hold
MaxPeerBlocks == 2    \* blocks mined by the other nodes (beside the shared genesis)
MaxPool == 2          \* transactions the mempool may hold
MaxRequests == 1      \* getdata requests in flight at once
MaxTasks == 2         \* connection handlers that are mining at once
MaxMined == 3         \* blocks in the store of a node that mines on its own
MaxLeaves == 6        \* serialized transactions handed to NewMerkleTree
HashBits == 14        \* width of a hash read as an integer (256 in the code)
NonceSpread == 3      \* the first valid nonce of a block lies in 0..NonceSpread-1
MaxNonce == 5         \* the nonce bound of the mining loop (math.MaxInt64 in the code)

Wallets == {"A", "B"}            \* the wallets of the wallet file
Amounts == {25, 75}              \* amounts passed to send
PeerAmounts == {25}              \* amounts the other nodes send
Timestamps == {1}                \* values of time.Now().Unix()

-----------------------------------------------------------------------------
(* Program constants *)

Difficulty == 12
Subsidy == 100
genesisData == "First Transaction from Genesis"

Empty == <<>>                    \* the empty / nil byte slice

-----------------------------------------------------------------------------
(* Sequence helpers *)

Range(s) == {s[i] : i \in 1..Len(s)}

Perms(S) == {p \in [1..Cardinality(S) -> S] : \A a, b \in 1..Cardinality(S) : a # b => p[a] # p[b]}

RECURSIVE SumValues(_)
SumValues(outs) == IF outs = <<>> THEN 0 ELSE outs[1].Value + SumValues(Tail(outs))

RECURSIVE Pow2(_)
Pow2(n) == IF n = 0 THEN 1 ELSE 2 * Pow2(n - 1)

-----------------------------------------------------------------------------
(* Crypto primitives and wallets *)

Sha256(x) == [sha |-> x]

\* wallet.NewKeyPair: the private key of wallet w and its public key X || Y
PrivateKey(w) == [priv |-> w]
PublicKey(w) == [pub |-> w]

\* wallet.PublicKeyHash: RIPEMD160(SHA256(pubKey))
PublicKeyHash(pubKey) == [ripemd |-> Sha256(pubKey)]

\* wallet.Checksum: first bytes of SHA256(SHA256(payload))
Checksum(payload) == [checksum |-> Sha256(Sha256(payload))]

\* Wallet.Address: Base58(version || pubKeyHash || checksum)
Address(w) ==
    LET versionedHash == [version |-> 0, pubKeyHash |-> PublicKeyHash(PublicKey(w))]
    IN  [base58 |-> [payload |-> versionedHash, checksum |-> Checksum(versionedHash)]]

\* wallet.Base58Decode
Base58Decode(address) == address.base58

\* ecdsa.Sign / ecdsa.Verify
EcdsaSign(privateKey, digest) == [signer |-> privateKey.priv, digest |-> digest]

EcdsaVerify(pubKey, digest, signature) ==
    /\ signature # Empty
    /\ pubKey # Empty
    /\ "pub" \in DOMAIN pubKey
    /\ signature.signer = pubKey.pub
    /\ signature.digest = digest

-----------------------------------------------------------------------------
(* Transactions *)

\* TxOutput.Lock: the pubKeyHash is the decoded address without version and checksum
Lock(address) == Base58Decode(address).payload.pubKeyHash

NewTXOutput(value, address) == [Value |-> value, PubKeyHash |-> Lock(address)]

IsLockedWithKey(out, pubKeyHash) == out.PubKeyHash = pubKeyHash

TxInput(id, out, signature, pubKey) ==
    [ID |-> id, Out |-> out, Signature |-> signature, PubKey |-> pubKey]

\* Transaction.Serialize: gob encoding of ID, Inputs, Outputs
Serialize(tx) == [id |-> tx.ID, ins |-> tx.Inputs, outs |-> tx.Outputs]

\* Transaction.Hash: SHA-256 of the serialization with the ID cleared
Hash(tx) == Sha256(Serialize([tx EXCEPT !.ID = Empty]))

\* Transaction.SetID: SHA-256 of the encoding of the transaction as it is
SetID(tx) == [tx EXCEPT !.ID = Sha256(Serialize(tx))]

IsCoinbase(tx) ==
    /\ Len(tx.Inputs) = 1
    /\ tx.Inputs[1].ID = Empty
    /\ tx.Inputs[1].Out = -1

\* CoinbaseTx(to, data); data = "" stands for fmt.Sprintf("Coin to: %s", to)
CoinbaseTx(to, data) ==
    LET d == IF data = "" THEN [bytes |-> "Coin to: ", to |-> to] ELSE [bytes |-> data]
    IN  SetID([ID |-> Empty,
               Inputs |-> <<TxInput(Empty, -1, Empty, d)>>,
               Outputs |-> <<NewTXOutput(Subsidy, to)>>])

TrimmedCopy(tx) ==
    [ID |-> tx.ID,
     Inputs |-> [i \in 1..Len(tx.Inputs) |->
                    TxInput(tx.Inputs[i].ID, tx.Inputs[i].Out, Empty, Empty)],
     Outputs |-> tx.Outputs]

\* prevTXs is a function txid -> Transaction; prevTXs[id].ID == nil is a map miss
PrevKnown(tx, prevTXs) == \A i \in 1..Len(tx.Inputs) : tx.Inputs[i].ID \in DOMAIN prevTXs

\* prevTX.Outputs[in.Out] is in range
PrevOutInRange(in, prevTXs) ==
    in.Out >= 0 /\ in.Out < Len(prevTXs[in.ID].Outputs)

\* the digest signed for input number i: the trimmed copy with input i's PubKey set to
\* the referenced output's PubKeyHash, hashed with the ID cleared
SigDigest(tx, i, prevTXs) ==
    LET in == tx.Inputs[i]
        txCopy == TrimmedCopy(tx)
        withKey == [txCopy EXCEPT !.Inputs[i].PubKey =
                        prevTXs[in.ID].Outputs[in.Out + 1].PubKeyHash]
    IN  Hash(withKey)

\* Transaction.Sign / Transaction.Verify end in a panic (log.Panic, index out of range)
SignPanics(tx, prevTXs) ==
    /\ ~IsCoinbase(tx)
    /\ \/ ~PrevKnown(tx, prevTXs)
       \/ \E i \in 1..Len(tx.Inputs) : ~PrevOutInRange(tx.Inputs[i], prevTXs)

Sign(tx, privateKey, prevTXs) ==
    IF IsCoinbase(tx) THEN tx
    ELSE [tx EXCEPT !.Inputs = [i \in 1..Len(tx.Inputs) |->
              [tx.Inputs[i] EXCEPT !.Signature = EcdsaSign(privateKey, SigDigest(tx, i, prevTXs))]]]

Verify(tx, prevTXs) ==
    IF IsCoinbase(tx) THEN TRUE
    ELSE \A i \in 1..Len(tx.Inputs) :
            EcdsaVerify(tx.Inputs[i].PubKey, SigDigest(tx, i, prevTXs), tx.Inputs[i].Signature)

-----------------------------------------------------------------------------
(* Merkle tree *)

\* NewMerkleNode: a leaf hashes the data, an inner node its children's hashes
NewMerkleNode(left, right, data) ==
    IF left = Empty /\ right = Empty
    THEN Sha256(data)
    ELSE Sha256([left |-> left, right |-> right])

PairUp(nodes) ==
    [j \in 1..(Len(nodes) \div 2) |-> NewMerkleNode(nodes[2 * j - 1], nodes[2 * j], Empty)]

\* the level loop of NewMerkleTree: rounds passes, each pairing nodes[j], nodes[j+1];
\* a level of odd length reads past its end (index out of range)
RECURSIVE MerkleLevels(_, _)
MerkleLevels(nodes, rounds) ==
    IF rounds = 0 THEN [ok |-> TRUE, nodes |-> nodes]
    ELSE IF Len(nodes) % 2 # 0 THEN [ok |-> FALSE, nodes |-> nodes]
    ELSE MerkleLevels(PairUp(nodes), rounds - 1)

NewMerkleTree(data) ==
    LET padded == IF Len(data) % 2 # 0 THEN Append(data, data[Len(data)]) ELSE data
        leaves == [i \in 1..Len(padded) |-> NewMerkleNode(Empty, Empty, padded[i])]
    IN  MerkleLevels(leaves, Len(padded) \div 2)

\* Block.HashTransactions: the Merkle root of the serialized transactions
HashTransactions(txs) ==
    NewMerkleTree([i \in 1..Len(txs) |-> Serialize(txs[i])]).nodes[1]

HashTransactionsPanics(txs) ==
    txs = <<>> \/ ~NewMerkleTree([i \in 1..Len(txs) |-> Serialize(txs[i])]).ok

-----------------------------------------------------------------------------
(* Proof of Work *)

HashSpace == Pow2(HashBits)

\* NewProof: target = 1 << (256 - Difficulty)
Target == Pow2(HashBits - Difficulty)

\* ProofOfWork.InitData: PrevHash || Data || ToHex(nonce) || ToHex(Difficulty)
InitData(prevHash, data, nonce) ==
    [prev |-> prevHash, data |-> data, nonce |-> nonce, difficulty |-> Difficulty]

\* the integer reading of a Merkle node
RECURSIVE NodeInt(_)
NodeInt(n) ==
    IF "left" \in DOMAIN n.sha
    THEN (2 * NodeInt(n.sha.left) + NodeInt(n.sha.right) + 1) % HashSpace
    ELSE (Len(n.sha.ins) + Len(n.sha.outs) + SumValues(n.sha.outs)) % HashSpace

\* big.Int.SetBytes(hash): the hash of InitData read as an integer.  A deterministic
\* function of the preimage; the first nonce that meets the target is
\* (int(prev) + int(data)) % NonceSpread.
RECURSIVE HashInt(_)
HashInt(h) ==
    LET d == h.sha
        prevInt == IF d.prev = Empty THEN 0 ELSE HashInt(d.prev)
        dataInt == NodeInt(d.data)
        first == (prevInt + dataInt) % NonceSpread
        cells == HashSpace \div Target
    IN  (((first + cells - (d.nonce % cells)) % cells) * Target + (dataInt % Target)) % HashSpace

\* the mining loop of ProofOfWork.Run from nonce on, `for nonce < bound`: the
\* nonce and hash it ends with
RECURSIVE RunBounded(_, _, _, _)
RunBounded(prevHash, data, nonce, bound) ==
    LET hash == Sha256(InitData(prevHash, data, nonce))
    IN  IF HashInt(hash) < Target THEN [nonce |-> nonce, hash |-> hash]
        ELSE IF nonce + 1 < bound THEN RunBounded(prevHash, data, nonce + 1, bound)
        ELSE [nonce |-> nonce + 1, hash |-> hash]

RunFrom(prevHash, data, nonce) == RunBounded(prevHash, data, nonce, MaxNonce)

Run(b) == RunFrom(b.PrevHash, HashTransactions(b.Transactions), 0)

\* ProofOfWork.Validate
Validate(b) ==
    HashInt(Sha256(InitData(b.PrevHash, HashTransactions(b.Transactions), b.Nonce))) < Target

-----------------------------------------------------------------------------
(* Blocks *)

\* CreateBlock with the mining loop starting at nonce 1
CreateBlockFromOne(txs, prevHash, height, now, bound) ==
    LET block == [Timestamp |-> now, Hash |-> Empty, Transactions |-> txs,
                  PrevHash |-> prevHash, Nonce |-> 0, Height |-> height]
        pow == RunBounded(prevHash, HashTransactions(txs), 1, bound)
    IN  [block EXCEPT !.Hash = pow.hash, !.Nonce = pow.nonce]

\* CreateBlock where the mining loop's nonce bound is bound
CreateBlockBounded(txs, prevHash, height, now, bound) ==
    LET block == [Timestamp |-> now, Hash |-> Empty, Transactions |-> txs,
                  PrevHash |-> prevHash, Nonce |-> 0, Height |-> height]
        pow == RunBounded(prevHash, HashTransactions(txs), 0, bound)
    IN  [block EXCEPT !.Hash = pow.hash, !.Nonce = pow.nonce]

CreateBlock(txs, prevHash, height, now) ==
    LET block == [Timestamp |-> now, Hash |-> Empty, Transactions |-> txs,
                  PrevHash |-> prevHash, Nonce |-> 0, Height |-> height]
        pow == Run(block)
    IN  [block EXCEPT !.Hash = pow.hash, !.Nonce = pow.nonce]

\* the genesis block numbered from one
GenesisHeightOne(coinbase, now) == CreateBlock(<<coinbase>>, Empty, 1, now)

Genesis(coinbase, now) == CreateBlock(<<coinbase>>, Empty, 0, now)

-----------------------------------------------------------------------------
(* Chain store: iterator, lookups *)

\* txn.Get(key) on the block keys
HasBlock(store, hash) == hash \in DOMAIN store

\* an iteration that stops at the first block whose parent is the genesis block
RECURSIVE IterateBeforeGenesis(_, _)
IterateBeforeGenesis(store, h) ==
    IF ~HasBlock(store, h) THEN [ok |-> FALSE, blks |-> <<>>]
    ELSE LET block == store[h]
         IN  IF block.PrevHash = Empty \/ ~HasBlock(store, block.PrevHash)
                \/ store[block.PrevHash].PrevHash = Empty
             THEN [ok |-> TRUE, blks |-> <<block>>]
             ELSE LET rest == IterateBeforeGenesis(store, block.PrevHash)
                  IN  [ok |-> rest.ok, blks |-> <<block>> \o rest.blks]

\* Iterator.Next from hash h until the block with empty PrevHash: the blocks
\* yielded, tip first; ok = FALSE when txn.Get fails on the way (Handle panics)
RECURSIVE IterateFrom(_, _)
IterateFrom(store, h) ==
    IF ~HasBlock(store, h) THEN [ok |-> FALSE, blks |-> <<>>]
    ELSE LET block == store[h]
         IN  IF block.PrevHash = Empty THEN [ok |-> TRUE, blks |-> <<block>>]
             ELSE LET rest == IterateFrom(store, block.PrevHash)
                  IN  [ok |-> rest.ok, blks |-> <<block>> \o rest.blks]

\* the transactions of the blocks in iteration order
RECURSIVE FlattenTxs(_)
FlattenTxs(blks) ==
    IF blks = <<>> THEN <<>> ELSE blks[1].Transactions \o FlattenTxs(Tail(blks))

\* BlockChain.FindTransaction: res is "found", "none" (error returned) or "panic"
RECURSIVE FindTransactionFrom(_, _, _)
FindTransactionFrom(store, h, ID) ==
    IF ~HasBlock(store, h) THEN [res |-> "panic"]
    ELSE LET block == store[h]
             hits == {i \in 1..Len(block.Transactions) : block.Transactions[i].ID = ID}
         IN  IF hits # {}
             THEN [res |-> "found",
                   tx |-> block.Transactions[CHOOSE i \in hits : \A j \in hits : i <= j]]
             ELSE IF block.PrevHash = Empty THEN [res |-> "none"]
             ELSE FindTransactionFrom(store, block.PrevHash, ID)

FindTransaction(store, tip, ID) == FindTransactionFrom(store, tip, ID)

\* the prevTXs map built by SignTransaction and VerifyTransaction
PrevTXs(store, tip, tx) ==
    [id \in {tx.Inputs[i].ID : i \in 1..Len(tx.Inputs)} |-> FindTransaction(store, tip, id).tx]

\* Handle(err) after FindTransaction panics
PrevTXsPanics(store, tip, tx) ==
    \E i \in 1..Len(tx.Inputs) : FindTransaction(store, tip, tx.Inputs[i].ID).res # "found"

SignTransactionPanics(store, tip, tx) ==
    PrevTXsPanics(store, tip, tx) \/ SignPanics(tx, PrevTXs(store, tip, tx))

SignTransaction(store, tip, tx, privateKey) == Sign(tx, privateKey, PrevTXs(store, tip, tx))

VerifyTransactionPanics(store, tip, tx) ==
    /\ ~IsCoinbase(tx)
    /\ (PrevTXsPanics(store, tip, tx) \/ SignPanics(tx, PrevTXs(store, tip, tx)))

VerifyTransaction(store, tip, tx) ==
    IF IsCoinbase(tx) THEN TRUE ELSE Verify(tx, PrevTXs(store, tip, tx))

-----------------------------------------------------------------------------
(* Chain store: MineBlock, AddBlock *)

\* MineBlock without its loop over the transactions
MineBlockPanicsUnverified(store, lhv, tip, txs) ==
    \/ ~HasBlock(store, lhv)
    \/ HashTransactionsPanics(txs)

\* MineBlock panics: a transaction does not verify, or the tip cannot be read
MineBlockPanics(store, lhv, tip, txs) ==
    \/ \E i \in 1..Len(txs) :
          VerifyTransactionPanics(store, tip, txs[i]) \/ ~VerifyTransaction(store, tip, txs[i])
    \/ ~HasBlock(store, lhv)
    \/ HashTransactionsPanics(txs)

\* the block MineBlock creates on the tip named by "lh"
MineBlockNew(store, lhv, txs, now) == CreateBlock(txs, lhv, store[lhv].Height + 1, now)

\* the store after MineBlock's write: the block under its hash, "lh" and LastHash
MineBlockStore(st, newBlock) ==
    [blocks |-> (newBlock.Hash :> newBlock) @@ st.blocks,
     lh |-> newBlock.Hash,
     LastHash |-> newBlock.Hash]

\* the comparison with <= in place of <: a block of equal height takes the tip
TipMovesOnEqual(lastBlock, block) == lastBlock.Height <= block.Height

\* the test that moves the tip in AddBlock
TipMoves(lastBlock, block) == lastBlock.Height < block.Height

\* BlockChain.AddBlock as a function of the store (blocks, lh, LastHash)
\* AddBlock panics (and its store transaction is discarded): "lh" or the tip is missing
AddBlockPanics(st, block) ==
    ~HasBlock(st.blocks, block.Hash) /\ ~HasBlock((block.Hash :> block) @@ st.blocks, st.lh)

\* AddBlock without the lookup of block.Hash: a stored block is written again
AddBlockNoLookup(st, block) ==
    IF AddBlockPanics(st, block) THEN st
    ELSE LET stored == (block.Hash :> block) @@ st.blocks
             lastBlock == stored[st.lh]
         IN  IF TipMoves(lastBlock, block)
             THEN [blocks |-> stored, lh |-> block.Hash, LastHash |-> block.Hash]
             ELSE [blocks |-> stored, lh |-> st.lh, LastHash |-> st.LastHash]

AddBlock(st, block) ==
    IF HasBlock(st.blocks, block.Hash) \/ AddBlockPanics(st, block) THEN st
    ELSE LET stored == (block.Hash :> block) @@ st.blocks
             lastBlock == stored[st.lh]
         IN  IF TipMoves(lastBlock, block)
             THEN [blocks |-> stored, lh |-> block.Hash, LastHash |-> block.Hash]
             ELSE [blocks |-> stored, lh |-> st.lh, LastHash |-> st.LastHash]

-----------------------------------------------------------------------------
(* UTXO index *)

\* the outputs of outs whose index (0-based) is not in spentOuts, from position i on
RECURSIVE UnspentOf(_, _, _)
UnspentOf(outs, i, spentOuts) ==
    IF i > Len(outs) THEN <<>>
    ELSE (IF (i - 1) \in spentOuts THEN <<>> ELSE <<outs[i]>>) \o UnspentOf(outs, i + 1, spentOuts)

RECURSIVE MarkSpent(_, _, _)
MarkSpent(spentTXOs, ins, i) ==
    IF i > Len(ins) THEN spentTXOs
    ELSE LET in == ins[i]
             before == IF in.ID \in DOMAIN spentTXOs THEN spentTXOs[in.ID] ELSE {}
         IN  MarkSpent((in.ID :> (before \cup {in.Out})) @@ spentTXOs, ins, i + 1)

\* the loop of BlockChain.FindUTXO over the transactions in iteration order
RECURSIVE FindUTXOLoop(_, _, _)
FindUTXOLoop(txs, UTXO, spentTXOs) ==
    IF txs = <<>> THEN UTXO
    ELSE LET tx == txs[1]
             spentOuts == IF tx.ID \in DOMAIN spentTXOs THEN spentTXOs[tx.ID] ELSE {}
             unspent == UnspentOf(tx.Outputs, 1, spentOuts)
             outs == IF tx.ID \in DOMAIN UTXO THEN UTXO[tx.ID] ELSE <<>>
             UTXO2 == IF unspent = <<>> THEN UTXO ELSE (tx.ID :> (outs \o unspent)) @@ UTXO
             spent2 == IF IsCoinbase(tx) THEN spentTXOs ELSE MarkSpent(spentTXOs, tx.Inputs, 1)
         IN  FindUTXOLoop(Tail(txs), UTXO2, spent2)

FindUTXOPanics(store, tip) == ~IterateFrom(store, tip).ok

FindUTXO(store, tip) == FindUTXOLoop(FlattenTxs(IterateFrom(store, tip).blks), <<>>, <<>>)

\* UTXOSet.Reindex: DeleteByPrefix, then the result of FindUTXO written
Reindex(store, tip) == IF FindUTXOPanics(store, tip) THEN <<>> ELSE FindUTXO(store, tip)

\* the position taken one too far: the output after position in.Out is dropped
KeepAllButNext(outs, out) == UnspentOf(outs, 1, {out + 1})

\* the outputs kept by Update for one input: all but position in.Out of the stored list
KeepAllBut(outs, out) == UnspentOf(outs, 1, {out})

Without(f, key) == IF DOMAIN f \ {key} = {} THEN <<>> ELSE [k \in DOMAIN f \ {key} |-> f[k]]

\* the inputs loop of UTXOSet.Update for one transaction
RECURSIVE UpdateInputs(_, _, _)
UpdateInputs(r, ins, i) ==
    IF i > Len(ins) \/ ~r.ok THEN r
    ELSE LET in == ins[i]
         IN  IF in.ID \notin DOMAIN r.u THEN [ok |-> FALSE, u |-> r.u]
             ELSE LET updateOuts == KeepAllBut(r.u[in.ID], in.Out)
                      u2 == IF updateOuts = <<>> THEN Without(r.u, in.ID)
                            ELSE (in.ID :> updateOuts) @@ r.u
                  IN  UpdateInputs([ok |-> TRUE, u |-> u2], ins, i + 1)

\* the transactions loop of UTXOSet.Update
RECURSIVE UpdateTxs(_, _)
UpdateTxs(r, txs) ==
    IF txs = <<>> \/ ~r.ok THEN r
    ELSE LET tx == txs[1]
             r2 == IF IsCoinbase(tx) THEN r ELSE UpdateInputs(r, tx.Inputs, 1)
             r3 == IF r2.ok THEN [ok |-> TRUE, u |-> (tx.ID :> tx.Outputs) @@ r2.u] ELSE r2
         IN  UpdateTxs(r3, Tail(txs))

UpdatePanics(u, block) == ~UpdateTxs([ok |-> TRUE, u |-> u], block.Transactions).ok

\* UTXOSet.Update: one store transaction, discarded when it panics
Update(u, block) ==
    IF UpdatePanics(u, block) THEN u
    ELSE UpdateTxs([ok |-> TRUE, u |-> u], block.Transactions).u

\* the outputs loop of FindSpendableOutputs for one index entry
RECURSIVE SelectOuts(_, _, _, _, _, _)
SelectOuts(r, txID, outs, i, pubkeyHash, amount) ==
    IF i > Len(outs) THEN r
    ELSE IF IsLockedWithKey(outs[i], pubkeyHash) /\ r.accumulated < amount
    THEN LET before == IF txID \in DOMAIN r.unspentOuts THEN r.unspentOuts[txID] ELSE <<>>
         IN  SelectOuts([accumulated |-> r.accumulated + outs[i].Value,
                         unspentOuts |-> (txID :> Append(before, i - 1)) @@ r.unspentOuts],
                        txID, outs, i + 1, pubkeyHash, amount)
    ELSE SelectOuts(r, txID, outs, i + 1, pubkeyHash, amount)

\* UTXOSet.FindSpendableOutputs; keys is the order in which the store iterator
\* yields the "utxo-" keys
RECURSIVE FindSpendableLoop(_, _, _, _, _)
FindSpendableLoop(r, u, keys, pubkeyHash, amount) ==
    IF keys = <<>> THEN r
    ELSE FindSpendableLoop(SelectOuts(r, keys[1], u[keys[1]], 1, pubkeyHash, amount),
                           u, Tail(keys), pubkeyHash, amount)

\* the selection that goes on while accumulated <= amount
FindSpendableOutputsInclusive(u, keys, pubkeyHash, amount) ==
    FindSpendableLoop([accumulated |-> 0, unspentOuts |-> <<>>], u, keys, pubkeyHash, amount + 1)

FindSpendableOutputs(u, keys, pubkeyHash, amount) ==
    FindSpendableLoop([accumulated |-> 0, unspentOuts |-> <<>>], u, keys, pubkeyHash, amount)

\* UTXOSet.FindUnspentTransactions and the balance getbalance prints
RECURSIVE FindUnspentLoop(_, _, _)
FindUnspentLoop(u, keys, pubkeyHash) ==
    IF keys = <<>> THEN <<>>
    ELSE SelectSeq(u[keys[1]], LAMBDA out : IsLockedWithKey(out, pubkeyHash))
            \o FindUnspentLoop(u, Tail(keys), pubkeyHash)

FindUnspentTransactions(u, pubkeyHash) ==
    FindUnspentLoop(u, CHOOSE keys \in Perms(DOMAIN u) : TRUE, pubkeyHash)

\* getbalance -address: the sum of the unspent outputs locked to the address
GetBalance(u, w) == SumValues(FindUnspentTransactions(u, Lock(Address(w))))

-----------------------------------------------------------------------------
(* Transaction builder *)

\* the inputs NewTransaction creates: ids is the order in which the selection map is ranged
RECURSIVE MakeInputs(_, _, _)
MakeInputs(validOutputs, ids, pubKey) ==
    IF ids = <<>> THEN <<>>
    ELSE [k \in 1..Len(validOutputs[ids[1]]) |->
             TxInput(ids[1], validOutputs[ids[1]][k], Empty, pubKey)]
         \o MakeInputs(validOutputs, Tail(ids), pubKey)

\* the transaction built with a change output whenever accumulated >= amount
NewTransactionAlwaysChange(from, to, amount, sel, ids) ==
    LET inputs == MakeInputs(sel.unspentOuts, ids, PublicKey(from))
        outputs == <<NewTXOutput(amount, Address(to))>> \o
                   (IF sel.accumulated >= amount
                    THEN <<NewTXOutput(sel.accumulated - amount, Address(from))>> ELSE <<>>)
    IN  SetID([ID |-> Empty, Inputs |-> inputs, Outputs |-> outputs])

\* the transaction NewTransaction builds before signing
NewTransactionUnsigned(from, to, amount, sel, ids) ==
    LET inputs == MakeInputs(sel.unspentOuts, ids, PublicKey(from))
        outputs == <<NewTXOutput(amount, Address(to))>> \o
                   (IF sel.accumulated > amount
                    THEN <<NewTXOutput(sel.accumulated - amount, Address(from))>> ELSE <<>>)
    IN  SetID([ID |-> Empty, Inputs |-> inputs, Outputs |-> outputs])

\* NewTransaction without the comparison of accumulated with amount
NewTransactionPanicsOnSign(store, tip, from, to, amount, sel, ids) ==
    SignTransactionPanics(store, tip, NewTransactionUnsigned(from, to, amount, sel, ids))

\* NewTransaction panics: "Not enough funds!" or a failed SignTransaction
NewTransactionPanics(store, tip, from, to, amount, sel, ids) ==
    \/ sel.accumulated < amount
    \/ SignTransactionPanics(store, tip, NewTransactionUnsigned(from, to, amount, sel, ids))

NewTransaction(store, tip, from, to, amount, sel, ids) ==
    SignTransaction(store, tip, NewTransactionUnsigned(from, to, amount, sel, ids), PrivateKey(from))

-----------------------------------------------------------------------------
(* The node's state and the CLI commands *)

Store == [blocks |-> blocks, lh |-> lh, LastHash |-> LastHash]

SetStore(st) ==
    /\ blocks' = st.blocks
    /\ lh' = st.lh
    /\ LastHash' = st.LastHash

NetVars == <<memoryPool, blocksInTransit, getdataSent, peerBlocks>>

\* the addresses of the nodes: the bootstrap node (KnownNodes[0]) and this node
Bootstrap == "localhost:3000"
ThisNode == "localhost:3001"
Nodes == {Bootstrap, ThisNode}

ServerVars == <<running, tasks, msgs, KnownNodes, peerTip, advertised, requested>>

\* no server started: the globals of the network package as declared
ServerInit ==
    /\ running = {}
    /\ tasks = {}
    /\ msgs = {}
    /\ KnownNodes = [n \in Nodes |-> <<Bootstrap>>]
    /\ peerTip = Empty
    /\ advertised = {}
    /\ requested = {}

\* DBExists
DBExists == lh # Empty

Init ==
    /\ blocks = <<>>
    /\ lh = Empty
    /\ LastHash = Empty
    /\ utxo = <<>>
    /\ memoryPool = <<>>
    /\ blocksInTransit = <<>>
    /\ getdataSent = {}
    /\ peerBlocks = <<>>
    /\ last = [cmd |-> "init", result |-> "ok"]
    /\ ServerInit

\* InitBlockChain: the store with the genesis block
InitBlockChain(address, now) ==
    LET genesis == Genesis(CoinbaseTx(address, genesisData), now)
    IN  [blocks |-> (genesis.Hash :> genesis), lh |-> genesis.Hash, LastHash |-> genesis.Hash]

\* createblockchain -address: InitBlockChain, then Reindex
CreateBlockChain(w, now) ==
    /\ ~DBExists
    /\ LET st == InitBlockChain(Address(w), now)
       IN  /\ SetStore(st)
           /\ utxo' = Reindex(st.blocks, st.LastHash)
    /\ last' = [cmd |-> "createblockchain", result |-> "ok", address |-> w]
    /\ UNCHANGED NetVars

\* createblockchain on an existing chain: "BlockChain already exists!", Goexit
CreateBlockChainExists ==
    /\ DBExists
    /\ last' = [cmd |-> "createblockchain", result |-> "exists"]
    /\ UNCHANGED <<blocks, lh, LastHash, utxo, NetVars>>

\* the keys of the index entries that hold an output locked to pubkeyHash
KeysLockedTo(u, pubkeyHash) ==
    {k \in DOMAIN u : \E i \in 1..Len(u[k]) : IsLockedWithKey(u[k][i], pubkeyHash)}

\* the orders in which the store iterator may yield the "utxo-" keys (the byte order of
\* the txids); entries with no output locked to pubkeyHash add nothing to a selection
\* wherever they come, so they are put last
IterOrders(u, pubkeyHash) ==
    LET rest == CHOOSE p \in Perms(DOMAIN u \ KeysLockedTo(u, pubkeyHash)) : TRUE
    IN  {p \o rest : p \in Perms(KeysLockedTo(u, pubkeyHash))}

SendResult(from, to, amount, result) ==
    [cmd |-> "send", result |-> result, from |-> from, to |-> to, amount |-> amount]

\* send -from -to -amount -mine: ContinueBlockChain, NewTransaction, MineBlock, Update
Send(from, to, amount, now) ==
    /\ DBExists
    /\ Cardinality(DOMAIN blocks) < MaxBlocks
    /\ \E keys \in IterOrders(utxo, PublicKeyHash(PublicKey(from))) :
         LET sel == FindSpendableOutputs(utxo, keys, PublicKeyHash(PublicKey(from)), amount)
         IN  \E ids \in Perms(DOMAIN sel.unspentOuts) :
               IF NewTransactionPanics(blocks, lh, from, to, amount, sel, ids)
               THEN /\ last' = SendResult(from, to, amount, "panic: not enough funds")
                    /\ UNCHANGED <<blocks, lh, LastHash, utxo>>
               ELSE LET tx == NewTransaction(blocks, lh, from, to, amount, sel, ids)
                        cbTx == CoinbaseTx(Address(from), "")
                        txs == <<cbTx, tx>>
                    IN  IF MineBlockPanics(blocks, lh, lh, txs)
                        THEN /\ last' = SendResult(from, to, amount, "panic: invalid transaction")
                             /\ UNCHANGED <<blocks, lh, LastHash, utxo>>
                        ELSE LET block == MineBlockNew(blocks, lh, txs, now)
                             IN  /\ SetStore(MineBlockStore(Store, block))
                                 /\ utxo' = Update(utxo, block)
                                 /\ last' = SendResult(from, to, amount,
                                                IF UpdatePanics(utxo, block)
                                                THEN "panic: update" ELSE "ok")
    /\ UNCHANGED NetVars

\* reindexutxo: ContinueBlockChain, Reindex
ReindexUTXO ==
    /\ DBExists
    /\ utxo' = Reindex(blocks, lh)
    /\ last' = [cmd |-> "reindexutxo", result |-> "ok"]
    /\ UNCHANGED <<blocks, lh, LastHash, NetVars>>

Next ==
    \/ \E w \in Wallets, now \in Timestamps :
          CreateBlockChain(w, now) /\ UNCHANGED ServerVars
    \/ CreateBlockChainExists /\ UNCHANGED ServerVars
    \/ \E from \in Wallets, to \in Wallets, amount \in Amounts, now \in Timestamps :
          Send(from, to, amount, now) /\ UNCHANGED ServerVars
    \/ ReindexUTXO /\ UNCHANGED ServerVars

Spec == Init /\ [][Next]_vars

-----------------------------------------------------------------------------
(* The peer network: block download *)

\* the state of a node started on a copy of the store createblockchain made, the
\* other nodes holding the same genesis block
InitNet ==
    \E w \in Wallets, now \in Timestamps :
        LET st == InitBlockChain(Address(w), now)
        IN  /\ blocks = st.blocks
            /\ lh = st.lh
            /\ LastHash = st.LastHash
            /\ utxo = Reindex(st.blocks, st.LastHash)
            /\ peerBlocks = st.blocks
            /\ memoryPool = <<>>
            /\ blocksInTransit = <<>>
            /\ getdataSent = {}
            /\ last = [cmd |-> "startnode", result |-> "ok"]
            /\ ServerInit

\* another node, whose tip is the block parent, runs send -mine: the new block joins
\* the blocks the other nodes hold
PeerSend(parent, from, to, amount, now) ==
    /\ Cardinality(DOMAIN peerBlocks) < MaxPeerBlocks + 1
    /\ LET u == Reindex(peerBlocks, parent)
           pubKeyHash == PublicKeyHash(PublicKey(from))
       IN  \E keys \in IterOrders(u, pubKeyHash) :
             LET sel == FindSpendableOutputs(u, keys, pubKeyHash, amount)
             IN  \E ids \in Perms(DOMAIN sel.unspentOuts) :
                   /\ ~NewTransactionPanics(peerBlocks, parent, from, to, amount, sel, ids)
                   /\ LET tx == NewTransaction(peerBlocks, parent, from, to, amount, sel, ids)
                          txs == <<CoinbaseTx(Address(from), ""), tx>>
                      IN  /\ ~MineBlockPanics(peerBlocks, parent, parent, txs)
                          /\ LET block == MineBlockNew(peerBlocks, parent, txs, now)
                             IN  peerBlocks' = (block.Hash :> block) @@ peerBlocks
    /\ UNCHANGED <<blocks, lh, LastHash, utxo, memoryPool, blocksInTransit, getdataSent, last>>

\* BlockChain.GetBlockHashes of a node whose tip is the block tip
GetBlockHashes(store, tip) ==
    LET blks == IterateFrom(store, tip).blks
    IN  [i \in 1..Len(blks) |-> blks[i].Hash]

\* HandleInv for inv{type=block, items}: blocksInTransit is replaced by the items,
\* getdata goes out for items[0], and every entry equal to items[0] is dropped
HandleInv(items) ==
    /\ items # <<>>
    /\ Cardinality(getdataSent \cup {items[1]}) <= MaxRequests
    /\ blocksInTransit' = SelectSeq(items, LAMBDA b : b # items[1])
    /\ getdataSent' = getdataSent \cup {items[1]}
    /\ last' = [cmd |-> "inv", result |-> "ok"]
    /\ UNCHANGED <<blocks, lh, LastHash, utxo, memoryPool, peerBlocks>>

\* a block as a faulty peer may send it: a field changed after mining
Tamper(block, kind) ==
    IF kind = "nonce" THEN [block EXCEPT !.Nonce = block.Nonce + 1]
    ELSE IF kind = "height" THEN [block EXCEPT !.Height = block.Height + 1]
    ELSE block

TamperKinds == {"none", "nonce", "height"}

\* HandleBlock: AddBlock, then getdata for the next block in transit, or Reindex
\* when none is left; request is the getdata the block message answers
HandleBlock(request, block) ==
    /\ HasBlock(blocks, block.Hash) \/ Cardinality(DOMAIN blocks) < MaxBlocks
    /\ LET st == AddBlock(Store, block)
       IN  /\ SetStore(st)
           /\ IF Len(blocksInTransit) > 0
              THEN /\ getdataSent' = (getdataSent \ {request}) \cup {blocksInTransit[1]}
                   /\ blocksInTransit' = Tail(blocksInTransit)
                   /\ utxo' = utxo
                   /\ last' = [cmd |-> "block", result |-> "ok", block |-> block,
                               known |-> HasBlock(blocks, block.Hash)]
              ELSE /\ getdataSent' = getdataSent \ {request}
                   /\ blocksInTransit' = blocksInTransit
                   /\ utxo' = Reindex(st.blocks, st.LastHash)
                   /\ last' = [cmd |-> "block",
                               result |-> IF FindUTXOPanics(st.blocks, st.LastHash)
                                          THEN "panic: reindex" ELSE "ok",
                               block |-> block,
                               known |-> HasBlock(blocks, block.Hash)]
    /\ UNCHANGED <<memoryPool, peerBlocks>>

NextNet ==
    \/ \E parent \in DOMAIN peerBlocks, from \in Wallets, to \in Wallets,
          amount \in PeerAmounts, now \in Timestamps :
          PeerSend(parent, from, to, amount, now) /\ UNCHANGED ServerVars
    \/ \E tip \in DOMAIN peerBlocks :
          HandleInv(GetBlockHashes(peerBlocks, tip)) /\ UNCHANGED ServerVars
    \/ \E hash \in DOMAIN peerBlocks : HandleInv(<<hash>>) /\ UNCHANGED ServerVars
    \/ \E request \in getdataSent \cap DOMAIN peerBlocks, kind \in TamperKinds :
          HandleBlock(request, Tamper(peerBlocks[request], kind)) /\ UNCHANGED ServerVars

SpecNet == InitNet /\ [][NextNet]_vars

\* the download with its history: advertised holds every hash an inv listed,
\* requested every hash a getdata was sent for (SendGetData in HandleInv and in
\* HandleBlock)
DownloadIdle == UNCHANGED <<running, tasks, msgs, KnownNodes, peerTip>>

InvReceived(items) ==
    /\ HandleInv(items)
    /\ advertised' = advertised \cup Range(items)
    /\ requested' = requested \cup {items[1]}
    /\ DownloadIdle

BlockReceived(request, block) ==
    /\ HandleBlock(request, block)
    /\ advertised' = advertised
    /\ requested' = requested \cup (IF Len(blocksInTransit) > 0 THEN {blocksInTransit[1]} ELSE {})
    /\ DownloadIdle

NextInv ==
    \/ \E parent \in DOMAIN peerBlocks, from \in Wallets, to \in Wallets,
          amount \in PeerAmounts, now \in Timestamps :
          PeerSend(parent, from, to, amount, now) /\ UNCHANGED ServerVars
    \/ \E tip \in DOMAIN peerBlocks : InvReceived(GetBlockHashes(peerBlocks, tip))
    \/ \E hash \in DOMAIN peerBlocks : InvReceived(<<hash>>)
    \/ \E request \in getdataSent \cap DOMAIN peerBlocks :
          BlockReceived(request, peerBlocks[request])

SpecInv == InitNet /\ [][NextInv]_vars

-----------------------------------------------------------------------------
(* The peer network: a mining node and its connection handlers *)

\* the wallet whose address startnode -miner names (mineAddress)
MinerWallet == "B"

mineAddress == Address(MinerWallet)

\* the wallet createblockchain -address named on the network's first node
GenesisWallet == "A"

\* a node started on a copy of the store createblockchain made; the bootstrap
\* node runs too
InitNode ==
    \E now \in Timestamps :
        LET st == InitBlockChain(Address(GenesisWallet), now)
        IN  /\ blocks = st.blocks
            /\ lh = st.lh
            /\ LastHash = st.LastHash
            /\ utxo = Reindex(st.blocks, st.LastHash)
            /\ peerBlocks = st.blocks
            /\ peerTip = st.lh
            /\ memoryPool = <<>>
            /\ blocksInTransit = <<>>
            /\ getdataSent = {}
            /\ last = [cmd |-> "startnode", result |-> "ok"]
            /\ running = Nodes
            /\ tasks = {}
            /\ msgs = {}
            /\ KnownNodes = [n \in Nodes |-> <<Bootstrap>>]
            /\ advertised = {}
            /\ requested = {}

\* an unrecovered panic in a handler goroutine ends the process: its handlers and
\* the globals of the network package are gone, the store on disk stays
Crash ==
    /\ running' = running \ {ThisNode}
    /\ tasks' = {}
    /\ memoryPool' = <<>>
    /\ blocksInTransit' = <<>>

\* StartServer of this node: ContinueBlockChain reads "lh"; a node other than
\* KnownNodes[0] sends nothing
StartServer ==
    /\ ThisNode \notin running
    /\ DBExists
    /\ running' = running \cup {ThisNode}
    /\ LastHash' = lh
    /\ KnownNodes' = [KnownNodes EXCEPT ![ThisNode] = <<Bootstrap>>]
    /\ last' = [cmd |-> "startnode", result |-> "ok"]
    /\ UNCHANGED <<blocks, lh, utxo, memoryPool, blocksInTransit, getdataSent, peerBlocks,
                   tasks, msgs, peerTip, advertised, requested>>

\* the transactions other nodes relay: those of their blocks
PeerTxs ==
    UNION {{tx \in Range(peerBlocks[h].Transactions) : ~IsCoinbase(tx)} : h \in DOMAIN peerBlocks}

\* a transaction as a faulty peer may send it: the signatures removed
StripSignatures(tx) ==
    [tx EXCEPT !.Inputs = [i \in 1..Len(tx.Inputs) |-> [tx.Inputs[i] EXCEPT !.Signature = Empty]]]

\* the loop of MineTx over memoryPool in the order the map is ranged: the
\* transactions VerifyTransaction accepts
RECURSIVE CollectVerified(_, _, _, _)
CollectVerified(store, tip, pool, order) ==
    IF order = <<>> THEN <<>>
    ELSE (IF VerifyTransaction(store, tip, pool[order[1]]) THEN <<pool[order[1]]>> ELSE <<>>)
         \o CollectVerified(store, tip, pool, Tail(order))

\* MineTx up to the end of MineBlock's read of "lh" and of the tip's Height:
\* res is "panic", "none" (no transaction verifies) or "mining"
MineTxRead(store, tip, lhv, pool, order, miner) ==
    IF \E id \in DOMAIN pool : VerifyTransactionPanics(store, tip, pool[id])
    THEN [res |-> "panic"]
    ELSE LET verified == CollectVerified(store, tip, pool, order)
             txs == Append(verified, CoinbaseTx(miner, ""))
         IN  IF verified = <<>> THEN [res |-> "none"]
             ELSE IF MineBlockPanics(store, lhv, tip, txs) THEN [res |-> "panic"]
             ELSE [res |-> "mining", txs |-> txs, lastHash |-> lhv,
                   lastHeight |-> store[lhv].Height]

\* the handler goroutine that has read the tip and is mining
MineTask(id, read) ==
    [id |-> id, txs |-> read.txs, lastHash |-> read.lastHash, lastHeight |-> read.lastHeight]

FreeTaskId == CHOOSE id \in 1..MaxTasks : \A t \in tasks : t.id # id

\* SendInv to the known nodes other than this one: a node that does not answer
\* is removed from KnownNodes
SendInvToKnown(kind, items) ==
    LET others == {KnownNodes[ThisNode][i] : i \in 1..Len(KnownNodes[ThisNode])} \ {ThisNode}
    IN  /\ msgs' = msgs \cup {[cmd |-> "inv", to |-> n, from |-> ThisNode, kind |-> kind,
                                items |-> items] : n \in others \cap running}
        /\ KnownNodes' = [KnownNodes EXCEPT
                             ![ThisNode] = SelectSeq(@, LAMBDA n : n \in running \/ n = ThisNode)]

\* HandleTx on a node that is not KnownNodes[0]: the transaction is put in
\* memoryPool and, with two or more transactions there and a mineAddress (miner
\* is not empty), MineTx starts; order is the order in which MineTx ranges
\* memoryPool
HandleTx(tx, order, miner) ==
    /\ ThisNode \in running
    /\ Cardinality(tasks) < MaxTasks
    /\ tx.ID \in DOMAIN memoryPool \/ Cardinality(DOMAIN memoryPool) < MaxPool
    /\ LET pool == (tx.ID :> tx) @@ memoryPool
           mines == Cardinality(DOMAIN pool) >= 2 /\ miner # Empty
           read == MineTxRead(blocks, LastHash, lh, pool, order, miner)
       IN  /\ order \in Perms(DOMAIN pool)
           /\ IF KnownNodes[ThisNode] = <<>>
              THEN /\ Crash
                   /\ last' = [cmd |-> "tx", result |-> "panic: index out of range"]
              ELSE IF mines /\ read.res = "panic"
              THEN /\ Crash
                   /\ last' = [cmd |-> "tx", result |-> "panic: verify"]
              ELSE /\ memoryPool' = pool
                   /\ tasks' = IF mines /\ read.res = "mining"
                               THEN tasks \cup {MineTask(FreeTaskId, read)} ELSE tasks
                   /\ last' = [cmd |-> "tx", result |-> "ok"]
                   /\ UNCHANGED <<running, blocksInTransit>>
    /\ UNCHANGED <<blocks, lh, LastHash, utxo, getdataSent, peerBlocks,
                   msgs, KnownNodes, peerTip, advertised, requested>>

\* the rest of MineTx for a handler that has read the tip: CreateBlock, MineBlock's
\* write of the block and of "lh", Reindex, the mined transactions deleted from
\* memoryPool, inv sent, and MineTx again while memoryPool is not empty
MineTxWrite(task, order, now) ==
    /\ ThisNode \in running
    /\ task \in tasks
    /\ LET newBlock == CreateBlock(task.txs, task.lastHash, task.lastHeight + 1, now)
           st == MineBlockStore(Store, newBlock)
           mined == {task.txs[i].ID : i \in 1..Len(task.txs)}
           left == DOMAIN memoryPool \ mined
           pool == IF left = {} THEN <<>> ELSE [id \in left |-> memoryPool[id]]
           read == MineTxRead(st.blocks, st.LastHash, st.lh, pool, order, mineAddress)
       IN  /\ HasBlock(blocks, newBlock.Hash) \/ Cardinality(DOMAIN blocks) < MaxBlocks
           /\ order \in Perms(left)
           /\ SetStore(st)
           /\ utxo' = Reindex(st.blocks, st.LastHash)
           /\ IF FindUTXOPanics(st.blocks, st.LastHash)
              THEN /\ Crash
                   /\ last' = [cmd |-> "minetx", result |-> "panic: reindex", block |-> newBlock]
                   /\ UNCHANGED <<msgs, KnownNodes>>
              ELSE IF left # {} /\ read.res = "panic"
              THEN /\ Crash
                   /\ SendInvToKnown("block", <<newBlock.Hash>>)
                   /\ last' = [cmd |-> "minetx", result |-> "panic: verify", block |-> newBlock]
              ELSE /\ memoryPool' = pool
                   /\ SendInvToKnown("block", <<newBlock.Hash>>)
                   /\ tasks' = IF left # {} /\ read.res = "mining"
                               THEN (tasks \ {task}) \cup {MineTask(task.id, read)}
                               ELSE tasks \ {task}
                   /\ last' = [cmd |-> "minetx", result |-> "ok", block |-> newBlock]
                   /\ UNCHANGED <<running, blocksInTransit>>
    /\ UNCHANGED <<getdataSent, peerBlocks, peerTip, advertised, requested>>

\* a message whose payload does not decode (or a connection read that fails):
\* the handler calls log.Panic
HandleUndecodable ==
    /\ ThisNode \in running
    /\ Crash
    /\ last' = [cmd |-> "undecodable", result |-> "panic: decode"]
    /\ UNCHANGED <<blocks, lh, LastHash, utxo, getdataSent, peerBlocks,
                   msgs, KnownNodes, peerTip, advertised, requested>>

NodeIdle == UNCHANGED <<running, tasks, msgs, KnownNodes, peerTip, advertised, requested>>

NextNode ==
    \/ \E parent \in DOMAIN peerBlocks, from \in Wallets, to \in Wallets,
          amount \in PeerAmounts, now \in Timestamps :
          PeerSend(parent, from, to, amount, now) /\ NodeIdle
    \/ \E hash \in DOMAIN peerBlocks \ DOMAIN blocks :
          ThisNode \in running /\ HandleBlock(hash, peerBlocks[hash]) /\ NodeIdle
    \/ \E tx \in PeerTxs : \E order \in Perms(DOMAIN memoryPool \cup {tx.ID}) :
          HandleTx(tx, order, mineAddress)
    \/ \E task \in tasks, order \in UNION {Perms(S) : S \in SUBSET DOMAIN memoryPool},
          now \in Timestamps : MineTxWrite(task, order, now)
    \/ HandleUndecodable

SpecNode == InitNode /\ [][NextNode]_vars

\* a node started without -miner (mineAddress empty): HandleTx only fills
\* memoryPool; peers relay their transactions as they made them or altered
NextRelay ==
    \/ \E parent \in DOMAIN peerBlocks, from \in Wallets, to \in Wallets,
          amount \in PeerAmounts, now \in Timestamps :
          PeerSend(parent, from, to, amount, now) /\ NodeIdle
    \/ \E hash \in DOMAIN peerBlocks \ DOMAIN blocks :
          ThisNode \in running /\ HandleBlock(hash, peerBlocks[hash]) /\ NodeIdle
    \/ \E tx \in PeerTxs : \E order \in Perms(DOMAIN memoryPool \cup {tx.ID}) :
          HandleTx(tx, order, Empty)
    \/ \E tx \in PeerTxs : \E order \in Perms(DOMAIN memoryPool \cup {tx.ID}) :
          HandleTx(StripSignatures(tx), order, Empty)

SpecRelay == InitNode /\ [][NextRelay]_vars

-----------------------------------------------------------------------------
(* The peer network: the bootstrap node and a second node starting up *)

\* the bootstrap node's store is peerBlocks with the tip peerTip; this node's is
\* blocks with "lh"; no server runs yet
InitSync ==
    \E w \in Wallets, now \in Timestamps :
        LET st == InitBlockChain(Address(w), now)
        IN  /\ blocks = st.blocks
            /\ lh = st.lh
            /\ LastHash = st.LastHash
            /\ utxo = Reindex(st.blocks, st.LastHash)
            /\ peerBlocks = st.blocks
            /\ peerTip = st.lh
            /\ memoryPool = <<>>
            /\ blocksInTransit = <<>>
            /\ getdataSent = {}
            /\ last = [cmd |-> "createblockchain", result |-> "ok"]
            /\ running = {}
            /\ tasks = {}
            /\ msgs = {}
            /\ KnownNodes = [n \in Nodes |-> <<Bootstrap>>]
            /\ advertised = {}
            /\ requested = {}

\* a request on its way: the command, the two addresses, and the payload's
\* BestHeight (version) or hashes (inv: Items, getdata: ID, block: the block)
Msg(cmd, to, from, height, items) ==
    [cmd |-> cmd, to |-> to, from |-> from, height |-> height, items |-> items]

\* send -mine on the bootstrap node's store before its server starts
PeerMine(from, to, amount, now) ==
    /\ Bootstrap \notin running
    /\ PeerSend(peerTip, from, to, amount, now)
    /\ DOMAIN peerBlocks' # DOMAIN peerBlocks
    /\ peerTip' = CHOOSE h \in DOMAIN peerBlocks' : h \notin DOMAIN peerBlocks
    /\ UNCHANGED <<running, tasks, msgs, KnownNodes, advertised, requested>>

\* StartServer of the bootstrap node: nodeAddress = KnownNodes[0], so it calls
\* SendVersion(nodeAddress, chain), a version message to itself
StartBootstrap ==
    /\ Bootstrap \notin running
    /\ running' = running \cup {Bootstrap}
    /\ msgs' = msgs \cup {Msg("version", Bootstrap, Bootstrap, peerBlocks[peerTip].Height, <<>>)}
    /\ KnownNodes' = [KnownNodes EXCEPT ![Bootstrap] = <<Bootstrap>>]
    /\ UNCHANGED <<blocks, lh, LastHash, utxo, memoryPool, blocksInTransit, getdataSent,
                   peerBlocks, last, tasks, peerTip, advertised, requested>>

\* HandleVersion, HandleGetBlocks and HandleGetData (block) of the node self whose
\* store is store with the tip tip: the requests they send
Replies(self, store, tip, m) ==
    IF m.cmd = "version"
    THEN IF store[tip].Height < m.height THEN {Msg("getblocks", m.from, self, 0, <<>>)}
         ELSE IF store[tip].Height > m.height
         THEN {Msg("version", m.from, self, store[tip].Height, <<>>)}
         ELSE {}
    ELSE IF m.cmd = "getblocks"
    THEN {Msg("inv", m.from, self, 0, GetBlockHashes(store, tip))}
    ELSE IF m.cmd = "getdata" /\ HasBlock(store, m.items[1])
    THEN {Msg("block", m.from, self, 0, m.items)}
    ELSE {}

\* SendData: a request to a node that does not listen is lost and the node is
\* removed from the sender's KnownNodes; HandleVersion adds an unknown sender
Delivered(m, outs) == (msgs \ {m}) \cup {o \in outs : o.to \in running}

\* the list with no entry removed after a failed send
KnownAfterKeepsDead(self, m, outs) ==
    [KnownNodes EXCEPT ![self] =
        IF m.cmd = "version" /\ \A i \in 1..Len(@) : @[i] # m.from
        THEN Append(@, m.from) ELSE @]

KnownAfter(self, m, outs) ==
    LET reached == SelectSeq(KnownNodes[self],
                             LAMBDA n : \A o \in outs : o.to = n => n \in running)
    IN  [KnownNodes EXCEPT ![self] =
            IF m.cmd = "version" /\ \A i \in 1..Len(reached) : reached[i] # m.from
            THEN Append(reached, m.from) ELSE reached]

\* HandleConnection of the node m.to for the request m
HandleConnection(m) ==
    /\ m \in msgs
    /\ m.to \in running
    /\ IF m.to = ThisNode /\ m.cmd = "inv"
       THEN LET outs == {Msg("getdata", m.from, ThisNode, 0, <<m.items[1]>>)}
            IN  /\ HandleInv(m.items)
                /\ msgs' = Delivered(m, outs)
                /\ KnownNodes' = KnownAfter(ThisNode, m, outs)
       ELSE IF m.to = ThisNode /\ m.cmd = "block"
       THEN LET outs == IF Len(blocksInTransit) > 0
                        THEN {Msg("getdata", m.from, ThisNode, 0, <<blocksInTransit[1]>>)}
                        ELSE {}
            IN  /\ HandleBlock(m.items[1], peerBlocks[m.items[1]])
                /\ msgs' = Delivered(m, outs)
                /\ KnownNodes' = KnownAfter(ThisNode, m, outs)
       ELSE LET outs == IF m.to = ThisNode THEN Replies(ThisNode, blocks, lh, m)
                        ELSE Replies(Bootstrap, peerBlocks, peerTip, m)
            IN  /\ msgs' = Delivered(m, outs)
                /\ KnownNodes' = KnownAfter(m.to, m, outs)
                /\ last' = [cmd |-> m.cmd, result |-> "ok"]
                /\ UNCHANGED <<blocks, lh, LastHash, utxo, memoryPool, blocksInTransit,
                               getdataSent, peerBlocks>>
    /\ UNCHANGED <<running, tasks, peerTip, advertised, requested>>

Deliver == \E m \in msgs : HandleConnection(m)

NextSync ==
    \/ \E from \in Wallets, to \in Wallets, amount \in Amounts, now \in Timestamps :
          PeerMine(from, to, amount, now)
    \/ StartBootstrap
    \/ StartServer
    \/ Deliver

SpecSync == InitSync /\ [][NextSync]_vars

\* every request sent is received and its connection handled
FairSpecSync == SpecSync /\ WF_vars(Deliver)

-----------------------------------------------------------------------------
(* The peer network: a miner node, peers that stop, and their requests *)

\* requests sent to this node and not yet handled
MaxInFlight == 1

\* a peer other than the bootstrap node; it is gone when it is answered
OtherPeer == "localhost:3002"

\* the bootstrap node's process ends
PeerStops ==
    /\ Bootstrap \in running
    /\ running' = running \ {Bootstrap}
    /\ UNCHANGED <<blocks, lh, LastHash, utxo, memoryPool, blocksInTransit, getdataSent,
                   peerBlocks, last, tasks, msgs, KnownNodes, peerTip, advertised, requested>>

\* a peer's SendVersion or SendGetBlocks to this node connects
PeerRequest(cmd, from, height) ==
    /\ ThisNode \in running
    /\ from = Bootstrap => Bootstrap \in running
    /\ Cardinality({m \in msgs : m.to = ThisNode}) < MaxInFlight
    /\ msgs' = msgs \cup {Msg(cmd, ThisNode, from, IF cmd = "version" THEN height ELSE 0, <<>>)}
    /\ UNCHANGED <<blocks, lh, LastHash, utxo, memoryPool, blocksInTransit, getdataSent,
                   peerBlocks, last, running, tasks, KnownNodes, peerTip, advertised, requested>>

\* peers relay the transactions that are not yet in a block of this node
NextPeers ==
    \/ \E to \in Wallets, amount \in PeerAmounts, now \in Timestamps :
          PeerSend(peerTip, GenesisWallet, to, amount, now) /\ NodeIdle
    \/ PeerStops
    \/ \E cmd \in {"version", "getblocks"}, from \in {Bootstrap, OtherPeer}, height \in 0..1 :
          PeerRequest(cmd, from, height)
    \/ \E m \in msgs : m.to = ThisNode /\ HandleConnection(m)
    \/ \E tx \in PeerTxs : \E order \in Perms(DOMAIN memoryPool \cup {tx.ID}) :
          /\ \A h \in DOMAIN blocks : tx \notin Range(blocks[h].Transactions)
          /\ HandleTx(tx, order, mineAddress)
    \/ \E task \in tasks, order \in UNION {Perms(S) : S \in SUBSET DOMAIN memoryPool},
          now \in Timestamps : MineTxWrite(task, order, now)

SpecPeers == InitNode /\ [][NextPeers]_vars

-----------------------------------------------------------------------------
(* The peer network: a miner node whose peers also relay unsigned transactions *)

NextMiner ==
    \/ \E to \in Wallets, amount \in PeerAmounts, now \in Timestamps :
          PeerSend(peerTip, GenesisWallet, to, amount, now) /\ NodeIdle
    \/ \E tx \in PeerTxs : \E order \in Perms(DOMAIN memoryPool \cup {tx.ID}) :
          HandleTx(tx, order, mineAddress)
    \/ \E tx \in PeerTxs : \E order \in Perms(DOMAIN memoryPool \cup {tx.ID}) :
          HandleTx(StripSignatures(tx), order, mineAddress)
    \/ \E task \in tasks, order \in UNION {Perms(S) : S \in SUBSET DOMAIN memoryPool},
          now \in Timestamps :
          Cardinality(DOMAIN blocks) < MaxMined /\ MineTxWrite(task, order, now)

SpecMiner == InitNode /\ [][NextMiner]_vars

-----------------------------------------------------------------------------
(* The peer network: Reindex in the block handler, transaction by transaction *)

\* txn.Set of every entry of written over the index as it is
SetEntries(index, written) ==
    IF DOMAIN index \cup DOMAIN written = {} THEN <<>>
    ELSE [k \in DOMAIN index \cup DOMAIN written |->
             IF k \in DOMAIN written THEN written[k] ELSE index[k]]

\* HandleBlock up to the end of DeleteByPrefix in Reindex: AddBlock, then (no
\* block being in transit) every "utxo-" key deleted in its own transaction
HandleBlockDelete(block) ==
    /\ ThisNode \in running
    /\ Cardinality(tasks) < MaxTasks
    /\ blocksInTransit = <<>>
    /\ HasBlock(blocks, block.Hash) \/ Cardinality(DOMAIN blocks) < MaxBlocks
    /\ SetStore(AddBlock(Store, block))
    /\ utxo' = <<>>
    /\ tasks' = tasks \cup {[id |-> FreeTaskId, before |-> utxo]}
    /\ last' = [cmd |-> "block", result |-> "reindex: deleted"]
    /\ UNCHANGED <<memoryPool, blocksInTransit, getdataSent, peerBlocks,
                   running, msgs, KnownNodes, peerTip, advertised, requested>>

\* the rest of Reindex for that handler: FindUTXO over the chain, then one
\* transaction that sets the entries found
ReindexWrite(task) ==
    /\ ThisNode \in running
    /\ task \in tasks
    /\ IF FindUTXOPanics(blocks, LastHash)
       THEN /\ Crash
            /\ utxo' = utxo
            /\ last' = [cmd |-> "block", result |-> "panic: reindex"]
       ELSE /\ utxo' = SetEntries(utxo, FindUTXO(blocks, LastHash))
            /\ tasks' = tasks \ {task}
            /\ last' = [cmd |-> "block", result |-> "ok"]
            /\ UNCHANGED <<running, memoryPool, blocksInTransit>>
    /\ UNCHANGED <<blocks, lh, LastHash, getdataSent, peerBlocks,
                   msgs, KnownNodes, peerTip, advertised, requested>>

\* another task reads the index in a View transaction (FindUnspentTransactions
\* for the wallet w): what it sees and the Reindex calls under way
ReadIndex(w) ==
    /\ ThisNode \in running
    /\ last' = [cmd |-> "findunspent", result |-> "ok", wallet |-> w, seen |-> utxo,
                balance |-> GetBalance(utxo, w), reindexing |-> tasks]
    /\ UNCHANGED <<blocks, lh, LastHash, utxo, memoryPool, blocksInTransit, getdataSent,
                   peerBlocks>>
    /\ NodeIdle

NextIndex ==
    \/ \E parent \in DOMAIN peerBlocks, from \in Wallets, to \in Wallets,
          amount \in PeerAmounts, now \in Timestamps :
          PeerSend(parent, from, to, amount, now) /\ NodeIdle
    \/ \E hash \in DOMAIN peerBlocks \ DOMAIN blocks : HandleBlockDelete(peerBlocks[hash])
    \/ \E task \in tasks : ReindexWrite(task)
    \/ \E w \in Wallets : ReadIndex(w)

SpecIndex == InitNode /\ [][NextIndex]_vars

-----------------------------------------------------------------------------
(* MineBlock called with a list of transactions the caller supplies *)

\* what a caller hands to MineBlock: the transaction NewTransaction signed, the
\* same without its signatures, or with an output changed after signing
CallerKinds == {"signed", "unsigned", "changed"}

CallerTx(tx, kind) ==
    IF kind = "unsigned" THEN StripSignatures(tx)
    ELSE IF kind = "changed" THEN [tx EXCEPT !.Outputs[1].Value = @ + 1]
    ELSE tx

\* NewTransaction and MineBlock(transactions) as send calls them, followed by
\* Update when MineBlock returns; tx is the transaction NewTransaction returned
CallMineBlock(from, to, amount, kind, now) ==
    /\ DBExists
    /\ Cardinality(DOMAIN blocks) < MaxMined
    /\ \E keys \in IterOrders(utxo, PublicKeyHash(PublicKey(from))) :
         LET sel == FindSpendableOutputs(utxo, keys, PublicKeyHash(PublicKey(from)), amount)
         IN  \E ids \in Perms(DOMAIN sel.unspentOuts) :
               /\ ~NewTransactionPanics(blocks, lh, from, to, amount, sel, ids)
               /\ LET made == NewTransaction(blocks, lh, from, to, amount, sel, ids)
                      txs == <<CoinbaseTx(Address(from), ""), CallerTx(made, kind)>>
                      call == [cmd |-> "mineblock", txs |-> txs, from |-> from, to |-> to,
                               amount |-> amount, accumulated |-> sel.accumulated,
                               unspentOuts |-> sel.unspentOuts, tx |-> made]
                  IN  IF MineBlockPanics(blocks, lh, lh, txs)
                      THEN /\ last' = call @@ [result |-> "panic: Invalid Transaction"]
                           /\ UNCHANGED <<blocks, lh, LastHash, utxo>>
                      ELSE LET block == MineBlockNew(blocks, lh, txs, now)
                           IN  /\ SetStore(MineBlockStore(Store, block))
                               /\ utxo' = Update(utxo, block)
                               /\ last' = call @@ [result |-> "ok"]
    /\ UNCHANGED NetVars

NextMine ==
    \/ \E w \in Wallets, now \in Timestamps :
          CreateBlockChain(w, now) /\ UNCHANGED ServerVars
    \/ \E from \in Wallets, to \in Wallets, amount \in Amounts, kind \in CallerKinds,
          now \in Timestamps :
          CallMineBlock(from, to, amount, kind, now) /\ UNCHANGED ServerVars

SpecMine == Init /\ [][NextMine]_vars

-----------------------------------------------------------------------------
(* The library functions on their own: a call with its arguments and result *)

\* no store is open and no server runs
NoNode ==
    /\ blocks = <<>>
    /\ lh = Empty
    /\ LastHash = Empty
    /\ utxo = <<>>
    /\ memoryPool = <<>>
    /\ blocksInTransit = <<>>
    /\ getdataSent = {}
    /\ peerBlocks = <<>>
    /\ ServerInit

NodeUntouched ==
    UNCHANGED <<blocks, lh, LastHash, utxo, memoryPool, blocksInTransit, getdataSent,
                peerBlocks, running, tasks, msgs, KnownNodes, peerTip, advertised, requested>>

\* the serialized transactions handed to NewMerkleTree
LeafData == {[bytes |-> 1], [bytes |-> 2]}

MerkleInputs == UNION {[1..n -> LeafData] : n \in 1..MaxLeaves}

InitMerkle ==
    /\ NoNode
    /\ \E data \in MerkleInputs : last = [cmd |-> "merkle", result |-> "call", data |-> data]

\* NewMerkleTree(data): the root node's hash, or the index-out-of-range panic
CallNewMerkleTree ==
    /\ last.cmd = "merkle"
    /\ last.result = "call"
    /\ LET tree == NewMerkleTree(last.data)
       IN  last' = IF tree.ok
                   THEN [cmd |-> "merkle", result |-> "ok", data |-> last.data,
                         root |-> tree.nodes[1]]
                   ELSE [cmd |-> "merkle", result |-> "panic: index out of range",
                         data |-> last.data]
    /\ NodeUntouched

NextMerkle == CallNewMerkleTree

SpecMerkle == InitMerkle /\ [][NextMerkle]_vars

\* the arguments of CreateBlock: a coinbase, alone or followed by a payment
PaymentTx(from, to, value) ==
    SetID([ID |-> Empty,
           Inputs |-> <<TxInput(CoinbaseTx(Address(from), "").ID, 0, Empty, PublicKey(from))>>,
           Outputs |-> <<NewTXOutput(value, Address(to))>>])

PoWTxs ==
    {<<CoinbaseTx(Address(w), "")>> : w \in Wallets}
    \cup {<<CoinbaseTx(Address(from), ""), PaymentTx(from, to, value)>> :
             from \in Wallets, to \in Wallets, value \in Amounts}

PoWPrevHashes ==
    {Empty} \cup {Genesis(CoinbaseTx(Address(w), genesisData), now).Hash :
                     w \in Wallets, now \in Timestamps}

InitPoW ==
    /\ NoNode
    /\ \E txs \in PoWTxs, prevHash \in PoWPrevHashes, bound \in 1..MaxNonce :
          last = [cmd |-> "createblock", result |-> "call", txs |-> txs,
                  prevHash |-> prevHash, bound |-> bound]

\* CreateBlock(txs, prevHash, height): NewProof, Run, and the block with the
\* nonce and hash Run returned
CallCreateBlock ==
    /\ last.cmd = "createblock"
    /\ last.result = "call"
    /\ \E now \in Timestamps :
          last' = [last EXCEPT !.result = "returned"] @@
                  [block |-> CreateBlockBounded(last.txs, last.prevHash,
                                                IF last.prevHash = Empty THEN 0 ELSE 1,
                                                now, last.bound)]
    /\ NodeUntouched

NextPoW == CallCreateBlock

SpecPoW == InitPoW /\ [][NextPoW]_vars

\* the arguments of FindSpendableOutputs: an index of at most two entries of
\* at most MaxOuts outputs each, a wallet's key hash and an amount
MaxOuts == 2

SpendIndexes ==
    LET txIDs == {CoinbaseTx(Address(w), "").ID : w \in Wallets}
        outputs == {NewTXOutput(v, Address(w)) : v \in Amounts, w \in Wallets}
        entries == UNION {[1..n -> outputs] : n \in 1..MaxOuts}
    IN  {<<>>} \cup UNION {[ids -> entries] : ids \in (SUBSET txIDs) \ {{}}}

SpendAmounts == {0, 25, 100, 175}

InitSpend ==
    /\ NoNode
    /\ \E u \in SpendIndexes, w \in Wallets, amount \in SpendAmounts :
         \E keys \in Perms(DOMAIN u) :
            last = [cmd |-> "findspendable", result |-> "call", index |-> u, keys |-> keys,
                    pubkeyHash |-> PublicKeyHash(PublicKey(w)), amount |-> amount,
                    accumulated |-> 0, unspentOuts |-> <<>>]

CallFindSpendableOutputs ==
    /\ last.result = "call"
    /\ LET r == FindSpendableOutputs(last.index, last.keys, last.pubkeyHash, last.amount)
       IN  last' = [last EXCEPT !.result = "returned", !.accumulated = r.accumulated,
                                !.unspentOuts = r.unspentOuts]
    /\ NodeUntouched

NextSpend == CallFindSpendableOutputs

SpecSpend == InitSpend /\ [][NextSpend]_vars

\* the signature and public-key encodings of Sign, MakeWallet and Verify; a
\* byte has ByteBits bits and a scalar of the curve ScalarBytes bytes
ByteBits == 1
ScalarBytes == 3

ByteBase == Pow2(ByteBits)

\* big.Int.Bytes: the big-endian bytes of n without leading zero bytes
RECURSIVE Bytes(_)
Bytes(n) == IF n = 0 THEN <<>> ELSE Append(Bytes(n \div ByteBase), n % ByteBase)

\* big.Int.SetBytes: the integer a big-endian byte string stands for
RECURSIVE SetBytes(_)
SetBytes(b) ==
    IF b = <<>> THEN 0
    ELSE SetBytes(SubSeq(b, 1, Len(b) - 1)) * ByteBase + b[Len(b)]

\* the scalars ecdsa.Sign returns (r, s, never 0) and the coordinates of the key
InitSig ==
    /\ NoNode
    /\ LET order == Pow2(ByteBits * ScalarBytes)
       IN  \E r \in 1..(order - 1), s \in 1..(order - 1), X \in 0..(order - 1),
              Y \in 0..(order - 1) :
              last = [cmd |-> "signverify", result |-> "call", r |-> r, s |-> s, X |-> X,
                      Y |-> Y, Signature |-> <<>>, PubKey |-> <<>>, verified |-> FALSE]

\* Sign stores r.Bytes() || s.Bytes(), the wallet X.Bytes() || Y.Bytes(); Verify
\* splits each in two halves and ecdsa.Verify accepts the scalars Sign produced
\* under the key that signed
CallSignVerify ==
    /\ last.result = "call"
    /\ LET signature == Bytes(last.r) \o Bytes(last.s)
           pubKey == Bytes(last.X) \o Bytes(last.Y)
           sigLen == Len(signature)
           keyLen == Len(pubKey)
           r == SetBytes(SubSeq(signature, 1, sigLen \div 2))
           s == SetBytes(SubSeq(signature, sigLen \div 2 + 1, sigLen))
           x == SetBytes(SubSeq(pubKey, 1, keyLen \div 2))
           y == SetBytes(SubSeq(pubKey, keyLen \div 2 + 1, keyLen))
       IN  last' = [last EXCEPT !.result = "returned", !.Signature = signature,
                                !.PubKey = pubKey,
                                !.verified = (r = last.r /\ s = last.s /\ x = last.X /\ y = last.Y)]
    /\ NodeUntouched

SpecSig == InitSig /\ [][CallSignVerify]_vars

-----------------------------------------------------------------------------
(* Properties of the UTXO index *)

\* the blocks of the chain, genesis first
ChainFromGenesis ==
    LET blks == IterateFrom(blocks, LastHash).blks
    IN  [i \in 1..Len(blks) |-> blks[Len(blks) + 1 - i]]

ChainTxs == FlattenTxs(IterateFrom(blocks, LastHash).blks)

\* an input of a transaction of the chain references output number out of transaction id
SpentInChain(id, out) ==
    \E t \in 1..Len(ChainTxs) :
        /\ ~IsCoinbase(ChainTxs[t])
        /\ \E i \in 1..Len(ChainTxs[t].Inputs) :
              ChainTxs[t].Inputs[i].ID = id /\ ChainTxs[t].Inputs[i].Out = out

\* Update called for each block in turn, starting from the empty index
RECURSIVE UpdateEach(_, _)
UpdateEach(r, blks) ==
    IF blks = <<>> \/ ~r.ok THEN r
    ELSE UpdateEach([ok |-> ~UpdatePanics(r.u, blks[1]), u |-> Update(r.u, blks[1])], Tail(blks))

\* the index is the one the last command left complete (Reindex, or Update of the new block)
IndexWritten == last.cmd \in {"createblockchain", "send", "reindexutxo"} /\ last.result = "ok"

\* C1: the index built by Update(block) for each block of the chain in order from
\* genesis has exactly the entries of the index Reindex writes for that chain.
C1_UpdatesEqualReindex ==
    DBExists =>
        LET r == UpdateEach([ok |-> TRUE, u |-> <<>>], ChainFromGenesis)
        IN  r.ok /\ r.u = Reindex(blocks, LastHash)

\* the stored outputs of entry k all are outputs of chain transaction k that no input
\* of the chain references
EntryUnspent(u, k) ==
    LET f == FindTransaction(blocks, LastHash, k)
    IN  /\ f.res = "found"
        /\ \A p \in 1..Len(u[k]) :
              \E j \in 1..Len(f.tx.Outputs) :
                  f.tx.Outputs[j] = u[k][p] /\ ~SpentInChain(k, j - 1)

\* C2: after Reindex, and after Update of the newest block, every entry of the index
\* holds only outputs of the chain transaction of that id, none of them referenced by
\* an input of a transaction of the chain.
C2_IndexHoldsUnspentOnly ==
    IndexWritten => \A k \in DOMAIN utxo : EntryUnspent(utxo, k)

\* every pair (txid, outIndex) of a selection names an output of chain transaction txid
\* that is locked to pubKeyHash and that no input of the chain references
SelectionSound(sel, pubKeyHash) ==
    \A k \in DOMAIN sel.unspentOuts : \A p \in 1..Len(sel.unspentOuts[k]) :
        LET f == FindTransaction(blocks, LastHash, k)
            out == sel.unspentOuts[k][p]
        IN  /\ f.res = "found"
            /\ out < Len(f.tx.Outputs)
            /\ IsLockedWithKey(f.tx.Outputs[out + 1], pubKeyHash)
            /\ ~SpentInChain(k, out)

\* C3: every pair FindSpendableOutputs returns names, by its original index, an unspent
\* output of that chain transaction locked to pubKeyHash.
C3_SelectionKeepsOriginalIndices ==
    IndexWritten =>
        \A w \in Wallets, amount \in Amounts :
            \A keys \in IterOrders(utxo, PublicKeyHash(PublicKey(w))) :
                SelectionSound(FindSpendableOutputs(utxo, keys, PublicKeyHash(PublicKey(w)), amount),
                               PublicKeyHash(PublicKey(w)))

\* the value of the previous output an input references (0 when there is none)
InputValue(in) ==
    LET f == FindTransaction(blocks, LastHash, in.ID)
    IN  IF f.res = "found" /\ in.Out >= 0 /\ in.Out < Len(f.tx.Outputs)
        THEN f.tx.Outputs[in.Out + 1].Value ELSE 0

RECURSIVE SumInputs(_)
SumInputs(ins) == IF ins = <<>> THEN 0 ELSE InputValue(ins[1]) + SumInputs(Tail(ins))

\* C5: every non-coinbase transaction of a stored block spends at least what it pays out.
C5_InputsCoverOutputs ==
    \A h \in DOMAIN blocks : \A t \in 1..Len(blocks[h].Transactions) :
        LET tx == blocks[h].Transactions[t]
        IN  IsCoinbase(tx) \/ SumInputs(tx.Inputs) >= SumValues(tx.Outputs)

-----------------------------------------------------------------------------
(* Properties of signature verification *)

\* the key of input in is the key the output it references is locked to
SpendsOwnOutput(store, tip, in) ==
    LET prev == FindTransaction(store, tip, in.ID)
    IN  /\ prev.res = "found"
        /\ in.Out + 1 \in 1..Len(prev.tx.Outputs)
        /\ IsLockedWithKey(prev.tx.Outputs[in.Out + 1], PublicKeyHash(in.PubKey))

\* C4: VerifyTransaction returns true for a non-coinbase transaction only if, for
\* every input, the hash of the input's public key equals the PubKeyHash of the
\* previous output the input references (checked on the transactions of the chain)
C4_VerifiedInputsOwnTheirOutputs ==
    \A h \in DOMAIN blocks : \A t \in 1..Len(blocks[h].Transactions) :
        LET tx == blocks[h].Transactions[t]
        IN  (/\ ~IsCoinbase(tx)
             /\ ~VerifyTransactionPanics(blocks, LastHash, tx)
             /\ VerifyTransaction(blocks, LastHash, tx))
            => \A i \in 1..Len(tx.Inputs) : SpendsOwnOutput(blocks, LastHash, tx.Inputs[i])

-----------------------------------------------------------------------------
(* Properties of the block store *)

\* C6: every stored block passes proof-of-work validation, the blocks received
\* from peers through HandleBlock and AddBlock included
C6_StoredBlocksValidate ==
    \A h \in DOMAIN blocks : Validate(blocks[h])

\* C7: every stored block other than the genesis block has its parent stored, and
\* the parent's Height is the block's Height minus one
C7_ParentStoredOneBelow ==
    \A h \in DOMAIN blocks :
        blocks[h].PrevHash # Empty =>
            /\ HasBlock(blocks, blocks[h].PrevHash)
            /\ blocks[blocks[h].PrevHash].Height = blocks[h].Height - 1

\* C8: following PrevHash from the block "lh" names reaches the genesis block
\* through stored blocks only, in every state of a download started by HandleInv
C8_TipReachesGenesis ==
    DBExists => IterateFrom(blocks, lh).ok

Deliverable == {Tamper(peerBlocks[h], kind) : h \in DOMAIN peerBlocks, kind \in TamperKinds}

\* C10: AddBlock is idempotent: AddBlock(B) twice leaves the stored blocks, "lh" and
\* LastHash as AddBlock(B) once does, and AddBlock of a block whose hash is stored
\* changes nothing
C10_AddBlockIdempotent ==
    \A block \in Deliverable :
        LET once == AddBlock(Store, block)
        IN  /\ AddBlock(once, block) = once
            /\ HasBlock(blocks, block.Hash) => once = Store

\* C10 witness: a block was delivered whose hash was stored with other contents
C10_KnownBlockDelivered ==
    /\ last.cmd = "block"
    /\ last.known
    /\ blocks[last.block.Hash] # last.block

-----------------------------------------------------------------------------
(* Properties of the CLI commands *)

\* a chain as createblockchain -address w left it: one block, balance 100
FreshChainOf(w) ==
    /\ DBExists
    /\ Cardinality(DOMAIN blocks) = 1
    /\ GetBalance(utxo, w) = 100

\* the step send -from a -to b -amount 25 -mine on such a chain
SimpleSendStep(a, b) ==
    /\ FreshChainOf(a)
    /\ last' = SendResult(a, b, 25, "ok")
    /\ blocks' # blocks

\* C13: on a chain created for A, after send -from A -to B -amount 25 -mine the
\* balance of A is 75, the balance of B is 25 and the chain holds two blocks
C13_SenderKeeps75 ==
    [][\A a \in Wallets : \A b \in Wallets \ {a} :
        SimpleSendStep(a, b) =>
            /\ GetBalance(utxo', a) = 75
            /\ GetBalance(utxo', b) = 25
            /\ Cardinality(DOMAIN blocks') = 2]_vars

\* C13 as amended: the balance of A is 175, the 75 of change and the 100 of the
\* coinbase the block of send -mine pays to the sender; B has 25, the chain two blocks
C13_SenderKeeps75PlusReward ==
    [][\A a \in Wallets : \A b \in Wallets \ {a} :
        SimpleSendStep(a, b) =>
            /\ GetBalance(utxo', a) = 175
            /\ GetBalance(utxo', b) = 25
            /\ Cardinality(DOMAIN blocks') = 2]_vars

\* C13 witness: the send was run on the fresh chain
C13_SimpleSendDone ==
    \E a \in Wallets : \E b \in Wallets \ {a} :
        /\ last = SendResult(a, b, 25, "ok")
        /\ Cardinality(DOMAIN blocks) = 2
        /\ GetBalance(utxo, b) = 25

\* C14: InitBlockChain on a node with no chain stores exactly one block, with empty
\* PrevHash, Height 0 and one coinbase paying 100 to the address, "lh" names it and
\* the balance of the address after Reindex is 100; with a chain present it fails
\* and the store is unchanged
C14_GenesisOnlyOnce ==
    [][/\ (last'.cmd = "createblockchain" /\ ~DBExists) =>
            /\ Cardinality(DOMAIN blocks') = 1
            /\ lh' \in DOMAIN blocks'
            /\ LastHash' = lh'
            /\ blocks'[lh'].Hash = lh'
            /\ blocks'[lh'].PrevHash = Empty
            /\ blocks'[lh'].Height = 0
            /\ Len(blocks'[lh'].Transactions) = 1
            /\ IsCoinbase(blocks'[lh'].Transactions[1])
            /\ blocks'[lh'].Transactions[1].Outputs =
                   <<[Value |-> 100, PubKeyHash |-> Lock(Address(last'.address))]>>
            /\ GetBalance(utxo', last'.address) = 100
       /\ (last'.cmd = "createblockchain" /\ DBExists) =>
            /\ last'.result = "exists"
            /\ UNCHANGED <<blocks, lh, LastHash, utxo>>]_vars

\* C14 witness: createblockchain was run on a node that has a chain
C14_SecondCreateRefused ==
    /\ last.cmd = "createblockchain"
    /\ last.result = "exists"
    /\ Cardinality(DOMAIN blocks) = 1

-----------------------------------------------------------------------------
(* Properties of the mining node and its concurrent handlers *)

\* a step in which a handler's MineTx writes its block
MineTxWrites == last'.cmd = "minetx" /\ peerBlocks' = peerBlocks /\ blocks' # blocks

\* C11: the block MineBlock writes has PrevHash equal to the tip ("lh") at the
\* moment of the write and Height equal to that tip's Height + 1: nothing
\* changes the store between MineBlock's read of the tip and its write.
C11_MinedBlockExtendsTipAtWrite ==
    [][MineTxWrites =>
          /\ last'.block.PrevHash = lh
          /\ last'.block.Height = blocks[lh].Height + 1]_vars

\* C12: the block named by "lh" has the maximum Height of the stored blocks,
\* and the tip's Height never decreases, whatever the interleaving of the
\* handlers' MineBlock and AddBlock.
C12_TipHighestAndNeverLower ==
    [][/\ \A h \in DOMAIN blocks' : blocks'[h].Height <= blocks'[lh'].Height
       /\ blocks'[lh'].Height >= blocks[lh].Height]_vars

\* C19: access to memoryPool is serialized: no two connection handlers are at
\* the same time inside MineTx's read-modify-write of memoryPool (its loop over
\* the pool, the mining, the deletion of the mined transactions).
C19_HandlersSerialized == \A t1 \in tasks : \A t2 \in tasks : t1 = t2

\* C20: when a received message does not decode, the node keeps running and
\* accepting connections, and its chain store, memoryPool and blocksInTransit
\* are unchanged.
C20_DecodeFailureIsLocal ==
    [][last'.cmd = "undecodable" =>
          /\ ThisNode \in running'
          /\ blocks' = blocks /\ lh' = lh
          /\ memoryPool' = memoryPool
          /\ blocksInTransit' = blocksInTransit]_vars

\* C17: every transaction the tx handler puts in memoryPool passed
\* VerifyTransaction against the node's chain before it was inserted.
C17_PoolHoldsVerifiedOnly ==
    [][\A id \in DOMAIN memoryPool' :
          (id \notin DOMAIN memoryPool \/ memoryPool'[id] # memoryPool[id]) =>
              /\ ~VerifyTransactionPanics(blocks, LastHash, memoryPool'[id])
              /\ VerifyTransaction(blocks, LastHash, memoryPool'[id])]_vars

\* C18: when a block is stored, by MineTx or by the block handler, none of its
\* transactions is in memoryPool any more.
C18_StoredTxLeavesPool ==
    [][\A h \in DOMAIN blocks' \ DOMAIN blocks :
          \A i \in 1..Len(blocks'[h].Transactions) :
              blocks'[h].Transactions[i].ID \notin DOMAIN memoryPool']_vars

-----------------------------------------------------------------------------
(* Properties of the block download *)

\* a step in which HandleBlock finds blocksInTransit empty and runs Reindex
ReindexAfterDownload ==
    last'.cmd = "block" /\ blocksInTransit = <<>> /\ getdataSent' # getdataSent

\* C16: the block handler runs Reindex only when getdata has been sent for every
\* block the inv messages received so far listed, whatever the interleaving of
\* the inv and block messages.
C16_EveryAdvertisedBlockRequested ==
    [][ReindexAfterDownload => advertised' \subseteq requested']_vars

-----------------------------------------------------------------------------
(* Properties of the start-up synchronisation *)

\* both servers run, the bootstrap node's chain has height 2, this node's is shorter
SyncNeeded ==
    /\ Nodes \subseteq running
    /\ peerBlocks[peerTip].Height = 2
    /\ blocks[lh].Height < 2

Synced ==
    /\ DOMAIN peerBlocks \subseteq DOMAIN blocks
    /\ blocks[lh].Height = peerBlocks[peerTip].Height

\* C15: when the bootstrap node has a chain of height 2 and this node is started
\* with a shorter chain, this node's version message starts the download and,
\* every request being delivered, it eventually stores the missing blocks and
\* its best height equals the bootstrap node's.
C15_StartedNodeCatchesUp == SyncNeeded ~> Synced

-----------------------------------------------------------------------------
(* Properties of blocks and Proof of Work *)

BlockFields == {"Timestamp", "Height", "Hash", "PrevHash", "Nonce", "Transactions"}

\* the block with one field changed; for Transactions the value of the first
\* output of its last transaction
ChangeField(block, field) ==
    IF field = "Timestamp" THEN [block EXCEPT !.Timestamp = block.Timestamp + 1]
    ELSE IF field = "Height" THEN [block EXCEPT !.Height = block.Height + 1]
    ELSE IF field = "Hash" THEN [block EXCEPT !.Hash = block.PrevHash]
    ELSE IF field = "PrevHash" THEN [block EXCEPT !.PrevHash = block.Hash]
    ELSE IF field = "Nonce" THEN [block EXCEPT !.Nonce = block.Nonce + 1]
    ELSE [block EXCEPT !.Transactions[Len(block.Transactions)].Outputs[1].Value = @ + 1]

\* the blocks MineBlock stored: every block but the genesis block
MinedBlocks == {h \in DOMAIN blocks : blocks[h].PrevHash # Empty}

\* C21: for a block stored by MineBlock, changing any one of its fields
\* (Timestamp, Height, Hash, PrevHash, Nonce, a field of a transaction) makes
\* ProofOfWork.Validate return false for the changed block.
C21_ChangedBlockFailsValidate ==
    \A h \in MinedBlocks : \A field \in BlockFields : ~Validate(ChangeField(blocks[h], field))

-----------------------------------------------------------------------------
(* Properties of transactions *)

\* the transactions of the stored blocks: in the CLI each is a coinbase CoinbaseTx
\* returned or a transaction NewTransaction returned
StoredTxs == UNION {Range(blocks[h].Transactions) : h \in DOMAIN blocks}

\* C22: every transaction NewTransaction returns (signed) and every coinbase
\* CoinbaseTx returns has its ID equal to the hash of its own serialization
\* with the ID cleared: tx.ID = tx.Hash().
C22_IdIsHashOfTransaction == \A tx \in StoredTxs : tx.ID = Hash(tx)

-----------------------------------------------------------------------------
(* Properties of the Merkle tree *)

\* the reference construction: a level of odd length gets its last node again,
\* adjacent nodes are paired left to right until one node remains
RECURSIVE ReferenceLevels(_)
ReferenceLevels(nodes) ==
    IF Len(nodes) = 1 THEN nodes[1]
    ELSE ReferenceLevels(PairUp(IF Len(nodes) % 2 # 0
                                THEN Append(nodes, nodes[Len(nodes)]) ELSE nodes))

ReferenceRoot(data) ==
    LET leaves == [i \in 1..Len(data) |-> Sha256(data[i])]
    IN  ReferenceLevels(IF Len(leaves) % 2 # 0
                        THEN Append(leaves, leaves[Len(leaves)]) ELSE leaves)

\* C23: for every non-empty sequence of serialized transactions NewMerkleTree
\* ends without a fault and its root is the root of the reference construction.
C23_MerkleRootIsReference ==
    (last.cmd = "merkle" /\ last.result # "call") =>
        /\ last.result = "ok"
        /\ last.root = ReferenceRoot(last.data)

-----------------------------------------------------------------------------
(* Properties of the mining loop *)

\* the nonces below the bound of the call whose hash is below the target
ValidNonces ==
    {n \in 0..(last.bound - 1) :
        HashInt(Sha256(InitData(last.prevHash, HashTransactions(last.txs), n))) < Target}

CreateBlockReturned == last.cmd = "createblock" /\ last.result = "returned"

\* C24: when some nonce below the bound meets the target, Run returns the
\* smallest such nonce with its hash, and the block CreateBlock builds from them
\* makes Validate return true.
C24_RunFindsSmallestNonce ==
    (CreateBlockReturned /\ ValidNonces # {}) =>
        /\ last.block.Nonce \in ValidNonces
        /\ \A n \in ValidNonces : last.block.Nonce <= n
        /\ last.block.Hash =
              Sha256(InitData(last.prevHash, HashTransactions(last.txs), last.block.Nonce))
        /\ Validate(last.block)

\* a block whose nonce was found after the loop had to go on from nonce 0
C24_NonceFoundAfterRetries ==
    CreateBlockReturned /\ ValidNonces # {} /\ last.block.Nonce > 0

\* C25: when no nonce below the bound meets the target, mining ends in a failure
\* and CreateBlock returns no block.
C25_ExhaustionIsFatal ==
    (last.cmd = "createblock" /\ last.result # "call" /\ ValidNonces = {}) =>
        /\ last.result = "fatal"
        /\ "block" \notin DOMAIN last

-----------------------------------------------------------------------------
(* Properties of Reindex under concurrent readers *)

\* C26: a reader of the index in another task sees, while a Reindex is under
\* way, the complete index from before that Reindex or the complete index of
\* the chain that Reindex writes, never anything else.
C26_ReaderSeesWholeIndex ==
    last.cmd = "findunspent" =>
        \A t \in last.reindexing :
            last.seen = t.before \/ last.seen = Reindex(blocks, LastHash)

-----------------------------------------------------------------------------
(* Properties of MineBlock's verification *)

\* a transaction of the list handed to MineBlock for which VerifyTransaction
\* returns false on the chain as stored
HasUnverified(txs) ==
    \E i \in 1..Len(txs) :
        /\ ~VerifyTransactionPanics(blocks, lh, txs[i])
        /\ ~VerifyTransaction(blocks, lh, txs[i])

\* C27: when VerifyTransaction is false for a transaction of the list, the
\* call of MineBlock fails and leaves the stored blocks, "lh" and LastHash as
\* they were.
C27_UnverifiedListWritesNothing ==
    [][(last'.cmd = "mineblock" /\ HasUnverified(last'.txs)) =>
           /\ last'.result # "ok"
           /\ blocks' = blocks
           /\ lh' = lh
           /\ LastHash' = LastHash]_vars

\* MineBlock was called with a transaction that does not verify and failed
C27_UnverifiedListRefused ==
    /\ last.cmd = "mineblock"
    /\ last.result = "panic: Invalid Transaction"
    /\ HasUnverified(last.txs)

-----------------------------------------------------------------------------
(* Properties of FindSpendableOutputs *)

\* the outputs of the index entry id at the positions selected for it
SelectedOutputs(u, sel, id) == [k \in 1..Len(sel[id]) |-> u[id][sel[id][k] + 1]]

RECURSIVE SumSelected(_, _, _)
SumSelected(u, sel, ids) ==
    IF ids = {} THEN 0
    ELSE LET id == CHOOSE x \in ids : TRUE
         IN  SumValues(SelectedOutputs(u, sel, id)) + SumSelected(u, sel, ids \ {id})

\* every selected (txid, outIndex) names an output of the index, once, locked to the key
SelectionWellFormed(u, sel, pubkeyHash) ==
    \A id \in DOMAIN sel :
        /\ id \in DOMAIN u
        /\ \A k \in 1..Len(sel[id]) :
              /\ sel[id][k] \in 0..(Len(u[id]) - 1)
              /\ IsLockedWithKey(u[id][sel[id][k] + 1], pubkeyHash)
              /\ \A j \in 1..Len(sel[id]) : j # k => sel[id][j] # sel[id][k]

C28_AmountZeroSelectsNothing ==
    /\ last.cmd = "findspendable"
    /\ last.result = "returned"
    /\ last.amount = 0
    /\ SumValues(FindUnspentTransactions(last.index, last.pubkeyHash)) > 0

-----------------------------------------------------------------------------
(* Properties of NewTransaction *)

\* the (txid, outIndex) pairs of a selection and of a transaction's inputs
SelectedPairs(sel) ==
    UNION {{<<id, sel[id][k]>> : k \in 1..Len(sel[id])} : id \in DOMAIN sel}

RECURSIVE SelectedCount(_, _)
SelectedCount(sel, ids) ==
    IF ids = {} THEN 0
    ELSE LET id == CHOOSE x \in ids : TRUE
         IN  Len(sel[id]) + SelectedCount(sel, ids \ {id})

\* C29: the transaction NewTransaction returns has one input per selected
\* (txid, outIndex), each with the sender's public key; its outputs are
\* [amount to the recipient] when accumulated = amount and [amount to the
\* recipient, accumulated - amount to the sender] when accumulated > amount,
\* so they sum to accumulated.
C29_InputsAreSelectionOutputsSumToAcc ==
    last.cmd = "mineblock" =>
        LET tx == last.tx
            acc == last.accumulated
            pay == NewTXOutput(last.amount, Address(last.to))
        IN  /\ Len(tx.Inputs) = SelectedCount(last.unspentOuts, DOMAIN last.unspentOuts)
            /\ {<<tx.Inputs[i].ID, tx.Inputs[i].Out>> : i \in 1..Len(tx.Inputs)}
                  = SelectedPairs(last.unspentOuts)
            /\ \A i \in 1..Len(tx.Inputs) : tx.Inputs[i].PubKey = PublicKey(last.from)
            /\ acc = last.amount => tx.Outputs = <<pay>>
            /\ acc > last.amount =>
                  tx.Outputs = <<pay, NewTXOutput(acc - last.amount, Address(last.from))>>
            /\ SumValues(tx.Outputs) = acc

\* NewTransaction returned a transaction without a change output
C29_ExactAmountNoChange ==
    /\ last.cmd = "mineblock"
    /\ last.accumulated = last.amount
    /\ Len(last.tx.Inputs) >= 1
    /\ Len(last.tx.Outputs) = 1

\* NewTransaction returned a transaction with a change output
C29_ChangeReturnedToSender ==
    /\ last.cmd = "mineblock"
    /\ last.accumulated > last.amount
    /\ Len(last.tx.Outputs) = 2

\* C30: a send of more than the sender's unspent outputs total fails with
\* the insufficient-funds error and leaves the stored blocks, "lh", LastHash
\* and the UTXO index as they were.
C30_InsufficientFundsChangesNothing ==
    [][(last'.cmd = "send" /\ DBExists /\ GetBalance(utxo, last'.from) < last'.amount) =>
           /\ last'.result = "panic: not enough funds"
           /\ blocks' = blocks
           /\ lh' = lh
           /\ LastHash' = LastHash
           /\ utxo' = utxo]_vars

\* a send refused for lack of funds by a sender that holds some
C30_SendRefused ==
    /\ last.cmd = "send"
    /\ last.result = "panic: not enough funds"
    /\ GetBalance(utxo, last.from) < last.amount
    /\ GetBalance(utxo, last.from) > 0

-----------------------------------------------------------------------------
(* Properties of MineTx and HandleTx *)

\* C31: the block MineTx mines has the coinbase transaction paying the
\* miner's address as its first transaction, the mempool transactions after it.
C31_CoinbaseFirstInMinedBlock ==
    last.cmd = "minetx" =>
        LET txs == last.block.Transactions
        IN  /\ txs[1] = CoinbaseTx(mineAddress, "")
            /\ \A i \in 2..Len(txs) : ~IsCoinbase(txs[i])

\* C32: HandleTx puts the transaction in memoryPool under its ID and, on a
\* node that is not the bootstrap node, starts MineTx exactly when a miner
\* address is set and memoryPool holds two or more transactions.
C32_HandleTxInsertsAndMinesOnTwo ==
    [][\A tx \in PeerTxs : \A order \in Perms(DOMAIN memoryPool \cup {tx.ID}) :
          HandleTx(tx, order, mineAddress) =>
              /\ ThisNode \in running'
              /\ tx.ID \in DOMAIN memoryPool'
              /\ memoryPool'[tx.ID] = tx
              /\ (tasks' # tasks) <=> (Cardinality(DOMAIN memoryPool') >= 2)]_vars

-----------------------------------------------------------------------------
(* Properties of the known-peers list *)

\* C33: HandleVersion of a node of best height h for version(h', from) sends
\* one getblocks to from when h < h', one version when h > h', nothing when
\* h = h', and appends from to KnownNodes exactly when it was not in the list.
C33_VersionAnsweredPeerAddedIfAbsent ==
    [][\A m \in msgs :
          (m.cmd = "version" /\ m.to = ThisNode /\ HandleConnection(m)) =>
              LET h == blocks[lh].Height
                  known == KnownNodes[ThisNode]
                  reply == IF h < m.height THEN {Msg("getblocks", m.from, ThisNode, 0, <<>>)}
                           ELSE IF h > m.height THEN {Msg("version", m.from, ThisNode, h, <<>>)}
                           ELSE {}
              IN  /\ m.from \in running => msgs' = (msgs \ {m}) \cup reply
                  /\ KnownNodes'[ThisNode] =
                        IF m.from \in Range(known) THEN known ELSE Append(known, m.from)]_vars

C40_BootstrapFirstInKnownNodes ==
    ThisNode \in running =>
        /\ KnownNodes[ThisNode] # <<>>
        /\ KnownNodes[ThisNode][1] = Bootstrap

-----------------------------------------------------------------------------
(* Properties of the signature encoding *)

\* C35: a transaction signed with a key verifies under that key, whatever the
\* signature scalars r, s and the key coordinates X, Y are.
C35_SignedTransactionVerifies ==
    (last.cmd = "signverify" /\ last.result = "returned") => last.verified

-----------------------------------------------------------------------------
(* Properties of the chain iterator *)

\* the positions, tip first, of the blocks of a path that hold a transaction ID
BlocksHolding(blks, ID) ==
    {k \in 1..Len(blks) : \E i \in 1..Len(blks[k].Transactions) : blks[k].Transactions[i].ID = ID}

-----------------------------------------------------------------------------
(* Properties of the recursion of MineTx *)

\* C37: a call of MineTx that mines a block and goes on to a further call has
\* taken at least one transaction out of memoryPool, and when MineTx returns
\* memoryPool holds no transaction that VerifyTransaction accepts.
C37_MineTxShrinksPoolUntilNoneVerifies ==
    [][\A task \in tasks : \A now \in Timestamps :
        \A order \in UNION {Perms(S) : S \in SUBSET DOMAIN memoryPool} :
          (MineTxWrite(task, order, now) /\ last'.result = "ok") =>
              IF \E t \in tasks' : t.id = task.id
              THEN Cardinality(DOMAIN memoryPool') < Cardinality(DOMAIN memoryPool)
              ELSE \A id \in DOMAIN memoryPool' :
                      ~VerifyTransaction(blocks', LastHash', memoryPool'[id])]_vars

\* C38: no double spend: in the chain reachable from the tip, no output
\* (txid, outIndex) is referenced by more than one input of the transactions of
\* the chain's blocks (the coinbase inputs, which reference no output, aside),
\* whatever the mempool MineTx mined from held.
C38_NoOutputSpentTwice ==
    IterateFrom(blocks, LastHash).ok =>
        LET txs == ChainTxs
        IN  \A k1 \in 1..Len(txs), k2 \in 1..Len(txs) :
              \A i1 \in 1..Len(txs[k1].Inputs), i2 \in 1..Len(txs[k2].Inputs) :
                  ( /\ ~IsCoinbase(txs[k1]) /\ ~IsCoinbase(txs[k2])
                    /\ txs[k1].Inputs[i1].ID = txs[k2].Inputs[i2].ID
                    /\ txs[k1].Inputs[i1].Out = txs[k2].Inputs[i2].Out )
                  => (k1 = k2 /\ i1 = i2)

\* C39: transaction ids are unique in the chain: no two transactions in
\* different blocks of the chain reachable from the tip have the same ID, the
\* coinbase transactions of two blocks mined for the same address included.
C39_TransactionIdsUniqueInChain ==
    IterateFrom(blocks, LastHash).ok =>
        LET blks == IterateFrom(blocks, LastHash).blks
        IN  \A k1 \in 1..Len(blks), k2 \in 1..Len(blks) :
              \A i1 \in 1..Len(blks[k1].Transactions), i2 \in 1..Len(blks[k2].Transactions) :
                  blks[k1].Transactions[i1].ID = blks[k2].Transactions[i2].ID => k1 = k2

====
